---- MODULE Spec2Model ----
(***************************************************************************)
(* A model of the Elix mixin core: the keyboard prefix-selection mixin     *)
(* (src/mixins/KeyboardPrefixSelectionMixin.js), the shadow template mixin *)
(* (src/src/ShadowTemplateMixin.js), the reactive setState/render cycle    *)
(* that the components of src/src/base/Dialog.js rely on, TabStripWrapper  *)
(* (src/elements/TabStripWrapper.js), the defaultState chain, the content  *)
(* items mixin and Explorer's refineState (src/src/base/Dialog.js).        *)
(*                                                                         *)
(* Strings are sequences of UTF-16 code units (integers), so that          *)
(* String.fromCharCode, toLowerCase and substr are modelled by what they   *)
(* do.  Each subsystem has its own specification; the variables of the     *)
(* other subsystems stay at their initial values.                          *)
(***************************************************************************)
EXTENDS Integers, Sequences, FiniteSets, TLC

VARIABLES
    \* ---- KeyboardPrefixSelectionMixin: one element -----------------------
    items,             \* element.items: the item elements (alt, textContent)
    itemTextContents,  \* element[itemTextContentsKey]: the lowercase cache
    typedPrefix,       \* element[typedPrefixKey]
    prefixTimeout,     \* element[prefixTimeoutKey]: 0 (falsy) or a timer id
    settingSelection,  \* element[settingSelectionKey]
    selectedIndex,     \* the base class's selectedIndex
    timers,            \* the host's pending timers (ids set by setTimeout)
    timerCount,        \* number of timers the host has handed out
    last,              \* the last operation performed and what it returned
    \* ---- ShadowTemplateMixin: a few instances of a few classes ----------
    classTemplateMap,  \* the module's cache: class -> cached template
    inst,              \* instance -> class, dynamic flag, shadow root
    hookCalls,         \* class -> the instances without the dynamic-template
                       \*   flag for which [symbols.template] was evaluated,
                       \*   in order
    templateCount,     \* evaluations of [symbols.template] so far, all told
    lastT,             \* the last template operation and its outcome
    \* ---- Reactive setState/render cycle: one component ------------------
    rxState,           \* the component's state record
    rxRendered,        \* the state the last render observed
    rxChanged,         \* fields changed since the last completed render
    rxMicrotasks,      \* queued render microtasks
    rxPhase,           \* "sync": a turn is running; "drain": its microtasks
    rxTurnChanges,     \* setState calls of this turn that changed the state
    rxRenders,         \* render invocations since this turn began
    rxFlags,           \* the change flags the last render was called with
    lastRx,            \* the last reactive operation
    \* ---- TabStripWrapper: one wrapper element ------------------------------
    twShadowRoot,      \* whether the element has a shadow root
    twChildren,        \* the child nodes of the shadow root, in document order
    twStrip,           \* the inner tab strip: its tabPosition, tabAlign and
                       \* selectedIndex
    twAttributes,      \* the host attributes role, tab-align, tab-position
    twBase,            \* whether Base.prototype has a selectedIndex property
    twSelectedIndex,   \* the selectedIndex the base class holds
    lastTw,             \* the last wrapper operation and its outcome
    \* ---- ShadowTemplateMixin's $ references: two instances -----------------
    refShadow,         \* instance -> its shadow root: attached, id -> element
    refProxy,          \* instance -> element[shadowReferencesKey]: the proxy
    refNodes,          \* elements created so far (identities 1, 2, ...)
    lastRef,            \* the last reference operation and what it returned
    \* ---- defaultState: one composed class ----------------------------------
    dfChain,           \* the layers of the class, innermost first
    dfDefaults,         \* the defaultState of the class
    \* ---- ContentItemsMixin: one component ----------------------------------
    ciChildren,        \* the element's child elements, in document order
    ciContent,         \* state.content: null or the children last copied
    ciItems,           \* state.items: null or the substantive elements
    ciConnected,       \* whether the element is in the document
    ciRaiseChangeEvents,\* element[raiseChangeEvents]
    ciRaiseInNextRender,\* raiseChangeEvents was set when state last changed
    ciItemsChanged,    \* items changed since the last render
    ciRenderQueued,    \* a render microtask is queued
    ciOwed,            \* an items-changed event is due and not yet raised
    lastCi,             \* the last operation on the component
    \* ---- Explorer: one component's state -----------------------------------
    exState,           \* this.state: items, assigned and default proxies
    exSettled,         \* whether refineState has reported the state settled
    lastEx,             \* the last operation on the state and its refine passes
    \* ---- Explorer: mounting and the proxy slot -----------------------------
    mtMounted,         \* whether componentDidMount has run
    mtSlotchangeFired, \* element[proxySlotchangeFiredKey]
    mtMicrotasks,      \* queued microtasks of componentDidMount
    mtPendingSlotchange,\* a slotchange event of the proxy slot awaits dispatch
    mtSlot,            \* the nodes assigned to the proxy slot
    mtAssignedProxies, \* state.assignedProxies
    mtReads,           \* calls of updateAssignedProxies so far
    mtChecks,          \* runs of the deferred check so far
    mtAssigns,         \* changes of the slot's assigned nodes so far
    lastMt,             \* the last operation of this part
    \* ---- Explorer: selection of the stage and the proxy list ---------------
    sySelectedIndex,   \* state.selectedIndex of the Explorer
    syRaiseChangeEvents,\* element[symbols.raiseChangeEvents]
    syRaiseInNextRender,\* raiseChangeEvents was set when state last changed
    syRenderQueued,    \* a render microtask is queued
    syProxyList,       \* selectedIndex of the proxy list element
    syStage,           \* selectedIndex of the stage element
    syEvents,          \* selected-index-changed events the Explorer has raised
    syHandled,         \* runs of handleSelectedIndexChanged so far
    syPicks,           \* selections the user has made in the inner elements
    lastSy,             \* the last operation of this part
    \* ---- Menu: itemsForState -----------------------------------------------
    mnBase,            \* what the base class's itemsForState returned
    mnItems,           \* what Menu's itemsForState returned
    mnCalled,           \* whether itemsForState has been called
    \* ---- ItemsTextMixin: one component's state -----------------------------
    txItems,           \* state.items: null or the items
    txTexts,           \* state.texts: null or the texts
    lastTx,             \* the last change of items and the state before it
    \* ---- TabStripWrapper: the ids and roles of the items -------------------
    idCount,           \* the module-level counter idCount
    idElements,        \* the role attribute and the id of each item element
    idGenerated,       \* the ids generated so far, in order
    lastIds            \* the last itemsChanged call and the state before it

kpVars == <<items, itemTextContents, typedPrefix, prefixTimeout,
            settingSelection, selectedIndex, timers, timerCount, last>>

stVars == <<classTemplateMap, inst, hookCalls, templateCount, lastT>>

rxVars == <<rxState, rxRendered, rxChanged, rxMicrotasks, rxPhase,
            rxTurnChanges, rxRenders, rxFlags, lastRx>>

twVars == <<twShadowRoot, twChildren, twStrip, twAttributes, twBase,
            twSelectedIndex, lastTw>>

refVars == <<refShadow, refProxy, refNodes, lastRef>>

dfVars == <<dfChain, dfDefaults>>

ciVars == <<ciChildren, ciContent, ciItems, ciConnected, ciRaiseChangeEvents, ciRaiseInNextRender, ciItemsChanged, ciRenderQueued, ciOwed, lastCi>>

exVars == <<exState, exSettled, lastEx>>

mtVars == <<mtMounted, mtSlotchangeFired, mtMicrotasks, mtPendingSlotchange, mtSlot, mtAssignedProxies, mtReads, mtChecks, mtAssigns, lastMt>>

syVars == <<sySelectedIndex, syRaiseChangeEvents, syRaiseInNextRender, syRenderQueued, syProxyList, syStage, syEvents, syHandled, syPicks, lastSy>>

mnVars == <<mnBase, mnItems, mnCalled>>

txVars == <<txItems, txTexts, lastTx>>

idVars == <<idCount, idElements, idGenerated, lastIds>>

vars == <<kpVars, stVars, rxVars, twVars, refVars, dfVars, ciVars, exVars, mtVars, syVars, mnVars, txVars, idVars>>

\* The variables of the other subsystems, which an action leaves alone.
notKp == <<stVars, rxVars, twVars, refVars, dfVars, ciVars, exVars, mtVars, syVars, mnVars, txVars, idVars>>
notSt == <<kpVars, rxVars, twVars, refVars, dfVars, ciVars, exVars, mtVars, syVars, mnVars, txVars, idVars>>
notRx == <<kpVars, stVars, twVars, refVars, dfVars, ciVars, exVars, mtVars, syVars, mnVars, txVars, idVars>>
notTw == <<kpVars, stVars, rxVars, refVars, dfVars, ciVars, exVars, mtVars, syVars, mnVars, txVars, idVars>>
notRef == <<kpVars, stVars, rxVars, twVars, dfVars, ciVars, exVars, mtVars, syVars, mnVars, txVars, idVars>>
notDf == <<kpVars, stVars, rxVars, twVars, refVars, ciVars, exVars, mtVars, syVars, mnVars, txVars, idVars>>
notCi == <<kpVars, stVars, rxVars, twVars, refVars, dfVars, exVars, mtVars, syVars, mnVars, txVars, idVars>>
notEx == <<kpVars, stVars, rxVars, twVars, refVars, dfVars, ciVars, mtVars, syVars, mnVars, txVars, idVars>>
notMt == <<kpVars, stVars, rxVars, twVars, refVars, dfVars, ciVars, exVars, syVars, mnVars, txVars, idVars>>
notSy == <<kpVars, stVars, rxVars, twVars, refVars, dfVars, ciVars, exVars, mtVars, mnVars, txVars, idVars>>
notMn == <<kpVars, stVars, rxVars, twVars, refVars, dfVars, ciVars, exVars, mtVars, syVars, txVars, idVars>>
notTx == <<kpVars, stVars, rxVars, twVars, refVars, dfVars, ciVars, exVars, mtVars, syVars, mnVars, idVars>>
notId == <<kpVars, stVars, rxVars, twVars, refVars, dfVars, ciVars, exVars, mtVars, syVars, mnVars, txVars>>

-----------------------------------------------------------------------------
(* Bounds *)

\* Longest typed prefix the model lets a run accumulate.
MaxPrefixLen == 2

\* Number of timers a run may install (setTimeout hands out fresh ids).
MaxTimers == 3

\* Number of evaluations of a template hook in a run.
MaxTemplates == 4

\* Number of setState calls in one synchronous turn.
MaxSetStates == 3

\* Number of elements created in the shadow subtrees of a run.
MaxNodes == 5

\* Number of layers (classes and mixins) in a composed class.
MaxLayers == 3

\* Number of refineState passes after which settling is given up.
MaxRefinePasses == 4

\* Most ids the TabStripWrappers generate.
MaxGeneratedIds == 2

\* Longest list of items of a component with ItemsTextMixin.
MaxItemsLen == 2

\* Longest list of items a base class returns to Menu.
MaxMenuItems == 3

\* Number of selections made by the user or by a program on an Explorer.
MaxPicks == 4

\* Number of times the nodes assigned to the proxy slot change.
MaxSlotAssigns == 2

\* Number of selectedIndex setter calls after which an exchange between the
\* wrapper and its tab strip is given up as endless.
MaxRounds == 4

-----------------------------------------------------------------------------
(* Strings *)

Min(a, b) == IF a < b THEN a ELSE b

\* String.prototype.toLowerCase on the code units the model uses (ASCII).
toLowerCase(s) ==
    [i \in 1..Len(s) |-> IF s[i] >= 65 /\ s[i] <= 90 THEN s[i] + 32 ELSE s[i]]

\* String.prototype.substr(start, length), for start >= 0.
substr(s, start, length) ==
    IF length <= 0 \/ start >= Len(s) THEN <<>>
    ELSE SubSeq(s, start + 1, Min(start + length, Len(s)))

\* String.fromCharCode(code): the one-unit string with that code.
fromCharCode(code) == <<code % 65536>>

-----------------------------------------------------------------------------
(* Items *)

\* An item element: whether it has an alt attribute, the attribute's value,
\* and its textContent.
Item(hasAlt, alt, text) == [hasAlt |-> hasAlt, alt |-> alt, textContent |-> text]

\* "Aa", "Ab", "Ba", "Bb" stand for Apple, Apricot, Banana, Blackberry.
Fruit == << Item(FALSE, <<>>, <<65, 97>>), Item(FALSE, <<>>, <<65, 98>>),
            Item(FALSE, <<>>, <<66, 97>>), Item(FALSE, <<>>, <<66, 98>>) >>

\* An item with alt "Bb" and text "Aa", an item with an empty alt and text
\* "ba", and a plain item "%a".
WithAlt == << Item(TRUE, <<66, 98>>, <<65, 97>>), Item(TRUE, <<>>, <<98, 97>>),
              Item(FALSE, <<>>, <<37, 97>>) >>

\* The item lists a component is given in the model.
ItemLists == { <<>>, Fruit, WithAlt, << Fruit[4], Fruit[1] >> }

\* The prefixes with which selectItemWithTextPrefix is called directly;
\* <<>> also stands for null.
Prefixes == { <<>>, <<97>>, <<98>>, <<98, 98>>, <<66>>, <<37>> }

\* Keys: Backspace, Escape, Space, Left arrow, A, B.
KeyCodes == {8, 27, 32, 37, 65, 66}

\* A keydown event.  In a keydown event `which` equals `keyCode`.  baseResult
\* is what the base class's keydown returns for the event.
Event(k, ctrl, meta, alt, b) ==
    [keyCode |-> k, which |-> k, ctrlKey |-> ctrl, metaKey |-> meta,
     altKey |-> alt, baseResult |-> b]

\* The keydown events of the model: every key without a modifier, the A key
\* with each modifier, and Backspace and Escape with ctrl.  The base class's
\* result varies where the base class is asked.
Events ==
    { Event(k, FALSE, FALSE, FALSE, b) : k \in KeyCodes \ {8, 27}, b \in BOOLEAN }
    \cup { Event(k, FALSE, FALSE, FALSE, FALSE) : k \in {8, 27} }
    \cup { Event(65, TRUE, FALSE, FALSE, b) : b \in BOOLEAN }
    \cup { Event(65, FALSE, TRUE, FALSE, FALSE), Event(65, FALSE, FALSE, TRUE, FALSE),
           Event(8, TRUE, FALSE, FALSE, FALSE), Event(27, TRUE, FALSE, FALSE, FALSE) }

-----------------------------------------------------------------------------
(* KeyboardPrefixSelectionMixin *)

\* The element as a record, so that the helper functions compose.
El == [ items |-> items, itemTextContents |-> itemTextContents,
        typedPrefix |-> typedPrefix, prefixTimeout |-> prefixTimeout,
        settingSelection |-> settingSelection, selectedIndex |-> selectedIndex,
        timers |-> timers, timerCount |-> timerCount ]

\* A text extraction that takes the alt attribute whenever the item has one,
\* an empty one included.
getItemText_AltWhenPresent(item) ==
    IF item.hasAlt THEN item.alt ELSE item.textContent

\* [symbols.getItemText](item): item.getAttribute('alt') || item.textContent.
\* getAttribute returns null without the attribute; '' is falsy too.
getItemText(item) ==
    IF item.hasAlt /\ item.alt # <<>> THEN item.alt ELSE item.textContent

\* getTextsFromItems(items, getText) of ItemsTextMixin, with the default
\* getText, for items that are an array; for null items, which only a state
\* record holds, it returns null (see itemsChangeHandler).
getTextsFromItems(its) == [i \in 1..Len(its) |-> getItemText(its[i])]

\* The cache is null, or an array (an empty array is truthy).
NullCache == [isNull |-> TRUE, texts |-> <<>>]

\* getItemTextContents(element): builds the cache when there is none.
\* Returns the element with its cache filled.
getItemTextContents(e) ==
    IF e.itemTextContents.isNull
    THEN [e EXCEPT !.itemTextContents =
            [isNull |-> FALSE,
             texts |-> [i \in 1..Len(e.items) |->
                           toLowerCase(getItemText(e.items[i]))]]]
    ELSE e

\* The loop of getIndexOfItemWithTextPrefix, from index i (0-based).
RECURSIVE scanItemTextContents(_, _, _)
scanItemTextContents(texts, prefix, i) ==
    IF i >= Len(texts) THEN -1
    ELSE IF substr(texts[i + 1], 0, Len(prefix)) = prefix THEN i
    ELSE scanItemTextContents(texts, prefix, i + 1)

\* A search that resumes after the current selection instead of scanning
\* from the first item.
getIndexOfItemWithTextPrefix_FromSelection(e, prefix) ==
    scanItemTextContents(e.itemTextContents.texts, prefix,
                         IF e.selectedIndex >= 0 THEN e.selectedIndex ELSE 0)

\* getIndexOfItemWithTextPrefix(element, prefix), on the filled cache.
getIndexOfItemWithTextPrefix(e, prefix) ==
    scanItemTextContents(e.itemTextContents.texts, prefix, 0)

\* A resetPrefixTimeout that forgets the timer's handle without calling
\* clearTimeout.
resetPrefixTimeout_NoClear(e) == [e EXCEPT !.prefixTimeout = 0]

\* resetPrefixTimeout(element)
resetPrefixTimeout(e) ==
    IF e.prefixTimeout # 0
    THEN [e EXCEPT !.timers = @ \ {e.prefixTimeout}, !.prefixTimeout = 0]
    ELSE e

\* resetTypedPrefix(element)
resetTypedPrefix(e) == resetPrefixTimeout([e EXCEPT !.typedPrefix = <<>>])

\* A setPrefixTimeout that installs a timer without cancelling the pending
\* one.
setPrefixTimeout_NoCancel(e) ==
    LET id == e.timerCount + 1
    IN  [e EXCEPT !.timerCount = id, !.timers = @ \cup {id},
                  !.prefixTimeout = id]

\* setPrefixTimeout(element): setTimeout hands out the next timer id.
setPrefixTimeout(e) ==
    LET e1 == resetPrefixTimeout(e)
        id == e1.timerCount + 1
    IN  [e1 EXCEPT !.timerCount = id, !.timers = @ \cup {id},
                   !.prefixTimeout = id]

\* A selectedIndex setter that does not look at the "setting selection" flag.
setSelectedIndex_AlwaysResets(e, index) ==
    resetTypedPrefix([e EXCEPT !.selectedIndex = index])

\* set selectedIndex(index)
setSelectedIndex(e, index) ==
    LET e1 == [e EXCEPT !.selectedIndex = index]
    IN  IF ~e1.settingSelection THEN resetTypedPrefix(e1) ELSE e1

\* selectItemWithTextPrefix(prefix): the element afterwards and the result.
selectItemWithTextPrefix(e, prefix) ==
    IF Len(prefix) = 0 THEN [el |-> e, result |-> FALSE]
    ELSE LET e1 == getItemTextContents(e)
             index == getIndexOfItemWithTextPrefix(e1, prefix)
         IN  IF index >= 0
             THEN LET e2 == [e1 EXCEPT !.settingSelection = TRUE]
                      e3 == setSelectedIndex(e2, index)
                  IN  [el |-> [e3 EXCEPT !.settingSelection = FALSE],
                       result |-> TRUE]
             ELSE [el |-> e1, result |-> FALSE]

\* A handleBackspace that drops the whole prefix.
handleBackspace_ClearsPrefix(e) ==
    LET e1 == [e EXCEPT !.typedPrefix = <<>>]
    IN  setPrefixTimeout(selectItemWithTextPrefix(e1, e1.typedPrefix).el)

\* handleBackspace(element)
handleBackspace(e) ==
    LET length == Len(e.typedPrefix)
        e1 == IF length > 0
              THEN [e EXCEPT !.typedPrefix = substr(@, 0, length - 1)]
              ELSE e
    IN  setPrefixTimeout(selectItemWithTextPrefix(e1, e1.typedPrefix).el)

\* A handlePlainCharacter that leaves the pending timeout running instead of
\* installing a new one.
handlePlainCharacter_KeepsTimeout(e, char) ==
    LET e1 == [e EXCEPT !.typedPrefix = @ \o toLowerCase(char)]
        e2 == selectItemWithTextPrefix(e1, e1.typedPrefix).el
    IN  IF e2.prefixTimeout # 0 THEN e2 ELSE setPrefixTimeout(e2)

\* A handlePlainCharacter that appends the character as typed.
handlePlainCharacter_NoLowerCase(e, char) ==
    LET e1 == [e EXCEPT !.typedPrefix = @ \o char]
    IN  setPrefixTimeout(selectItemWithTextPrefix(e1, e1.typedPrefix).el)

\* handlePlainCharacter(element, char)
handlePlainCharacter(e, char) ==
    LET e1 == [e EXCEPT !.typedPrefix = @ \o toLowerCase(char)]
    IN  setPrefixTimeout(selectItemWithTextPrefix(e1, e1.typedPrefix).el)

\* A test that lets every key but Space through, whatever modifier is held.
isPlainCharacter_AnyModifier(event) == event.which # 32

\* The test of the default branch of keydown's switch.
isPlainCharacter(event) ==
    ~event.ctrlKey /\ ~event.metaKey /\ ~event.altKey /\ event.which # 32

\* A keydown whose Escape branch reports the key handled and leaves the
\* prefix and its timeout as they are.
keydown_EscapeKeepsPrefix(e, event) ==
    LET branch == IF event.keyCode = 8 THEN "backspace"
                  ELSE IF event.keyCode = 27 THEN "escape" ELSE "default"
        e1 == IF branch = "backspace" THEN handleBackspace(e)
              ELSE IF branch = "default" /\ isPlainCharacter(event)
                   THEN handlePlainCharacter(e, fromCharCode(event.keyCode))
                   ELSE e
        handled == branch # "default"
    IN  [el |-> e1,
         result |-> IF handled THEN TRUE ELSE event.baseResult,
         baseCalls |-> IF handled THEN 0 ELSE 1]

\* A keydown that reports a plain character as handled by itself, without
\* asking the base class.
keydown_PlainIsHandled(e, event) ==
    LET branch == IF event.keyCode = 8 THEN "backspace"
                  ELSE IF event.keyCode = 27 THEN "escape" ELSE "default"
        plain == branch = "default" /\ isPlainCharacter(event)
        e1 == IF branch = "backspace" THEN handleBackspace(e)
              ELSE IF plain
                   THEN handlePlainCharacter(e, fromCharCode(event.keyCode))
                   ELSE e
        handled == branch # "default" \/ plain
        resetPrefix == branch = "escape"
        e2 == IF resetPrefix THEN resetTypedPrefix(e1) ELSE e1
    IN  [el |-> e2,
         result |-> IF handled THEN TRUE ELSE event.baseResult,
         baseCalls |-> IF handled THEN 0 ELSE 1]

\* [symbols.keydown](event): the element afterwards, the value returned and
\* the number of calls of the base class's keydown.
keydown(e, event) ==
    LET branch == IF event.keyCode = 8 THEN "backspace"
                  ELSE IF event.keyCode = 27 THEN "escape" ELSE "default"
        e1 == IF branch = "backspace" THEN handleBackspace(e)
              ELSE IF branch = "default" /\ isPlainCharacter(event)
                   THEN handlePlainCharacter(e, fromCharCode(event.keyCode))
                   ELSE e
        handled == branch # "default"
        resetPrefix == branch = "escape"
        e2 == IF resetPrefix THEN resetTypedPrefix(e1) ELSE e1
    IN  [el |-> e2,
         result |-> IF handled THEN TRUE ELSE event.baseResult,
         baseCalls |-> IF handled THEN 0 ELSE 1]

\* An itemsChanged that keeps the cached texts.
itemsChanged_KeepsCache(e) == resetTypedPrefix(e)

\* [symbols.itemsChanged]()
itemsChanged(e) == resetTypedPrefix([e EXCEPT !.itemTextContents = NullCache])

\* A timer callback that forgets the timer but keeps the prefix.
prefixTimeoutCallback_KeepsPrefix(e) == resetPrefixTimeout(e)

\* The timer callback installed by setPrefixTimeout.
prefixTimeoutCallback(e) == resetTypedPrefix(e)

-----------------------------------------------------------------------------
(* The prefix mixin as a state machine *)

NoEvent == [keyCode |-> 0, which |-> 0, ctrlKey |-> FALSE, metaKey |-> FALSE,
            altKey |-> FALSE, baseResult |-> FALSE]

\* What the element held when the last operation began.
Before == [typedPrefix |-> typedPrefix, prefixTimeout |-> prefixTimeout,
           selectedIndex |-> selectedIndex,
           cached |-> ~itemTextContents.isNull]

Last(op, event, prefix, index, result, baseCalls) ==
    [op |-> op, event |-> event, prefix |-> prefix, index |-> index,
     result |-> result, baseCalls |-> baseCalls, before |-> Before]

Assign(e) ==
    /\ items' = e.items
    /\ itemTextContents' = e.itemTextContents
    /\ typedPrefix' = e.typedPrefix
    /\ prefixTimeout' = e.prefixTimeout
    /\ settingSelection' = e.settingSelection
    /\ selectedIndex' = e.selectedIndex
    /\ timers' = e.timers
    /\ timerCount' = e.timerCount

PrefixStart ==
    /\ items \in ItemLists
    /\ itemTextContents = NullCache
    /\ typedPrefix = <<>>
    /\ prefixTimeout = 0
    /\ settingSelection = FALSE
    /\ selectedIndex = -1
    /\ timers = {}
    /\ timerCount = 0
    /\ last = Last("init", NoEvent, <<>>, -1, FALSE, 0)

\* The prefix mixin while another subsystem is studied.
PrefixIdle == PrefixStart /\ items = <<>>

\* Does the handler of this event install a timer, or extend the prefix?
InstallsTimer(event) ==
    event.keyCode = 8 \/ (event.keyCode # 27 /\ isPlainCharacter(event))
ExtendsPrefix(event) ==
    event.keyCode # 8 /\ event.keyCode # 27 /\ isPlainCharacter(event)

\* The component is sent a keydown event.
Keydown ==
    \E event \in Events :
        /\ UNCHANGED notKp
        /\ InstallsTimer(event) => timerCount < MaxTimers
        /\ ExtendsPrefix(event) => Len(typedPrefix) < MaxPrefixLen
        /\ LET r == keydown(El, event)
           IN  /\ Assign(r.el)
               /\ last' = Last("keydown", event, <<>>, -1, r.result, r.baseCalls)

\* A pending timer fires.
Timeout ==
    \E id \in timers :
        /\ UNCHANGED notKp
        /\ Assign(prefixTimeoutCallback([El EXCEPT !.timers = @ \ {id}]))
        /\ last' = Last("timeout", NoEvent, <<>>, id, FALSE, 0)

\* Someone other than the mixin assigns selectedIndex.
SetSelectedIndex ==
    \E index \in -1..(Len(items) - 1) :
        /\ UNCHANGED notKp
        /\ Assign(setSelectedIndex(El, index))
        /\ last' = Last("selectedIndex", NoEvent, <<>>, index, FALSE, 0)

\* Someone calls selectItemWithTextPrefix directly.
SelectItemWithTextPrefix ==
    \E prefix \in Prefixes :
        LET r == selectItemWithTextPrefix(El, prefix)
        IN  /\ UNCHANGED notKp
            /\ Assign(r.el)
            /\ last' = Last("select", NoEvent, prefix, -1, r.result, 0)

\* The set of items changes; the component is told so through itemsChanged.
ItemsChanged ==
    \E newItems \in ItemLists :
        /\ UNCHANGED notKp
        /\ Assign(itemsChanged([El EXCEPT !.items = newItems]))
        /\ last' = Last("itemsChanged", NoEvent, <<>>, -1, FALSE, 0)

NextPrefix ==
    \/ Keydown
    \/ Timeout
    \/ SetSelectedIndex
    \/ SelectItemWithTextPrefix
    \/ ItemsChanged

-----------------------------------------------------------------------------
(* ShadowTemplateMixin *)

\* Number of component instances.
NumInstances == 3

Instances == 1..NumInstances

\* Component classes: Explorer defines a template; NoTemplate defines none;
\* StringTemplate's [symbols.template] returns a string.
Classes == {"Explorer", "NoTemplate", "StringTemplate"}

\* JavaScript values a template variable holds.
Undefined == [kind |-> "undefined", id |-> 0]
Null == [kind |-> "null", id |-> 0]

\* element[symbols.template]: every evaluation of a template getter builds a
\* new object, identified by id.
templateHook(cls, id) ==
    IF cls = "Explorer" THEN [kind |-> "template", id |-> id]
    ELSE IF cls = "StringTemplate" THEN [kind |-> "string", id |-> id]
    ELSE Undefined

Truthy(v) == v.kind \in {"template", "string"}

\* An instance before its shadow root is attached.
NoShadowRoot == [attached |-> FALSE, from |-> 0]

NewInstance(cls) ==
    [cls |-> cls, hasDynamicTemplate |-> FALSE, shadowRoot |-> NoShadowRoot,
     attachCount |-> 0, cloneCount |-> 0]

\* A getTemplate that takes no notice of the dynamic-template flag: it
\* returns the class's cached template when there is one and caches the
\* template it builds.
getTemplate_IgnoresDynamicFlag(map, element, id) ==
    LET cached == map[element.cls]
    IN  IF cached.kind # "undefined"
        THEN [template |-> cached, map |-> map, evaluated |-> FALSE,
              threw |-> FALSE]
        ELSE LET hook == templateHook(element.cls, id)
                 template == IF Truthy(hook) THEN hook ELSE Null
             IN  IF Truthy(template) /\ template.kind # "template"
                 THEN [template |-> template, map |-> map,
                       evaluated |-> TRUE, threw |-> TRUE]
                 ELSE [template |-> template,
                       map |-> [map EXCEPT ![element.cls] = template],
                       evaluated |-> TRUE, threw |-> FALSE]

\* getTemplate(element), with id the identity of the template the hook would
\* build: the template returned, the cache afterwards, whether the hook was
\* evaluated and whether the function threw.
getTemplate(map, element, id) ==
    LET hasDynamicTemplate == element.hasDynamicTemplate
        cached == IF hasDynamicTemplate THEN Undefined ELSE map[element.cls]
    IN  IF cached.kind # "undefined"
        THEN [template |-> cached, map |-> map, evaluated |-> FALSE,
              threw |-> FALSE]
        ELSE LET hook == templateHook(element.cls, id)
                 template == IF Truthy(hook) THEN hook ELSE Null
             IN  IF Truthy(template) /\ template.kind # "template"
                 THEN [template |-> template, map |-> map,
                       evaluated |-> TRUE, threw |-> TRUE]
                 ELSE [template |-> template,
                       map |-> IF ~hasDynamicTemplate
                               THEN [map EXCEPT ![element.cls] = template]
                               ELSE map,
                       evaluated |-> TRUE, threw |-> FALSE]

\* A render that stamps the template without looking for a shadow root.
render_NoShadowCheck(map, element, id) ==
    LET t == getTemplate(map, element, id)
    IN  IF ~t.threw /\ Truthy(t.template)
        THEN [element |-> [element EXCEPT
                  !.shadowRoot = [attached |-> TRUE, from |-> t.template.id],
                  !.attachCount = @ + 1, !.cloneCount = @ + 1],
              map |-> t.map, template |-> t.template,
              evaluated |-> t.evaluated, threw |-> FALSE]
        ELSE [element |-> element, map |-> t.map, template |-> t.template,
              evaluated |-> t.evaluated, threw |-> t.threw]

\* [symbols.render](changed): the element and the cache afterwards, the
\* template getTemplate returned, whether the hook was evaluated and whether
\* an exception left render.
render(map, element, id) ==
    IF element.shadowRoot.attached
    THEN [element |-> element, map |-> map, template |-> Undefined,
          evaluated |-> FALSE, threw |-> FALSE]
    ELSE LET t == getTemplate(map, element, id)
         IN  IF ~t.threw /\ Truthy(t.template)
             THEN [element |-> [element EXCEPT
                       !.shadowRoot = [attached |-> TRUE,
                                       from |-> t.template.id],
                       !.attachCount = @ + 1, !.cloneCount = @ + 1],
                   map |-> t.map, template |-> t.template,
                   evaluated |-> t.evaluated, threw |-> FALSE]
             ELSE [element |-> element, map |-> t.map,
                   template |-> t.template, evaluated |-> t.evaluated,
                   threw |-> t.threw]

LastT(op, i, before, cache, template, evaluated, threw) ==
    [op |-> op, inst |-> i, before |-> before, cache |-> cache,
     template |-> template, evaluated |-> evaluated, threw |-> threw]

\* The instances exist, of any classes; nothing is rendered or cached yet.
TemplateStart ==
    /\ classTemplateMap = [c \in Classes |-> Undefined]
    /\ inst \in { [i \in Instances |-> NewInstance(f[i])] :
                    f \in [Instances -> Classes] }
    /\ hookCalls = [c \in Classes |-> <<>>]
    /\ templateCount = 0
    /\ lastT = LastT("init", 0, NewInstance("NoTemplate"), classTemplateMap,
                      Undefined, FALSE, FALSE)

\* The template subsystem while another subsystem is studied.
TemplateIdle ==
    /\ TemplateStart
    /\ \A i \in Instances : inst[i].cls = "NoTemplate"

\* An instance is rendered.
Render ==
    \E i \in Instances :
        LET r == render(classTemplateMap, inst[i], templateCount + 1)
        IN  /\ r.evaluated => templateCount < MaxTemplates
            /\ inst' = [inst EXCEPT ![i] = r.element]
            /\ classTemplateMap' = r.map
            /\ templateCount' = IF r.evaluated THEN templateCount + 1
                                ELSE templateCount
            /\ hookCalls' =
                 IF r.evaluated /\ ~inst[i].hasDynamicTemplate
                 THEN [hookCalls EXCEPT ![inst[i].cls] = Append(@, i)]
                 ELSE hookCalls
            /\ lastT' = LastT("render", i, inst[i], classTemplateMap,
                              r.template, r.evaluated, r.threw)
            /\ UNCHANGED notSt

\* A role is assigned on an instance (Explorer's proxyListRole, proxyRole and
\* stageRole setters), which marks its template as dynamic.
SetRole ==
    \E i \in Instances :
        /\ inst[i].cls = "Explorer"
        /\ ~inst[i].hasDynamicTemplate
        /\ inst' = [inst EXCEPT ![i].hasDynamicTemplate = TRUE]
        /\ lastT' = LastT("setRole", i, inst[i], classTemplateMap, Undefined,
                          FALSE, FALSE)
        /\ UNCHANGED <<classTemplateMap, hookCalls, templateCount>>
        /\ UNCHANGED notSt

NextTemplate ==
    \/ Render
    \/ SetRole

-----------------------------------------------------------------------------
(* The reactive setState/render cycle *)

\* The state fields of the modelled component (TabButton's position and
\* selected).
Fields == {"position", "selected"}

DefaultState == [position |-> "top", selected |-> FALSE]

\* The partial states that setState is called with.
Partials ==
    { [position |-> p] : p \in {"top", "bottom"} }
    \cup { [selected |-> b] : b \in BOOLEAN }
    \cup { [position |-> p, selected |-> b] :
             p \in {"top", "bottom"}, b \in BOOLEAN }

Rx == [state |-> rxState, rendered |-> rxRendered, changed |-> rxChanged,
       microtasks |-> rxMicrotasks, renders |-> rxRenders, flags |-> rxFlags]

\* The fields of a partial state whose value differs from the current one.
changedFields(state, partial) ==
    { f \in DOMAIN partial : partial[f] # state[f] }

\* A setState that renders at once instead of deferring to a microtask.
setState_RendersSynchronously(c, partial) ==
    LET changed == changedFields(c.state, partial)
        next == [f \in Fields |->
                    IF f \in DOMAIN partial THEN partial[f] ELSE c.state[f]]
    IN  IF changed = {} THEN c
        ELSE [c EXCEPT !.state = next, !.rendered = next,
                       !.renders = @ + 1]

\* A setState that queues a render whether or not a field differs.
setState_AlwaysSchedules(c, partial) ==
    LET changed == changedFields(c.state, partial)
        next == [f \in Fields |->
                    IF f \in DOMAIN partial THEN partial[f] ELSE c.state[f]]
    IN  [c EXCEPT !.state = next, !.changed = @ \cup changed,
                  !.microtasks = @ + 1]

\* setState(partial): merge; when a field differs, replace the state, note
\* the changed fields and queue a render microtask.
setState(c, partial) ==
    LET changed == changedFields(c.state, partial)
        next == [f \in Fields |->
                    IF f \in DOMAIN partial THEN partial[f] ELSE c.state[f]]
    IN  IF changed = {} THEN c
        ELSE [c EXCEPT !.state = next, !.changed = @ \cup changed,
                       !.microtasks = @ + 1]

\* The change-flags record: the diff of the previous and the next state
\* record, field by field.
changeFlags(previous, next) == [f \in Fields |-> previous[f] # next[f]]

\* A render microtask that flags every field some setState has changed
\* since the last render, whatever its value is now.
renderMicrotask_FlagsEveryWrite(c) ==
    IF c.changed # {}
    THEN [c EXCEPT !.rendered = c.state, !.renders = @ + 1,
                   !.flags = [f \in Fields |-> f \in c.changed],
                   !.changed = {}, !.microtasks = @ - 1]
    ELSE [c EXCEPT !.microtasks = @ - 1]

\* A queued render microtask: renders when something changed since the last
\* render, with the flags of the fields that differ from that render.
renderMicrotask(c) ==
    IF c.changed # {}
    THEN [c EXCEPT !.rendered = c.state, !.renders = @ + 1,
                   !.flags = changeFlags(c.rendered, c.state),
                   !.changed = {}, !.microtasks = @ - 1]
    ELSE [c EXCEPT !.microtasks = @ - 1]

AssignRx(c) ==
    /\ rxState' = c.state
    /\ rxRendered' = c.rendered
    /\ rxChanged' = c.changed
    /\ rxMicrotasks' = c.microtasks
    /\ rxRenders' = c.renders
    /\ rxFlags' = c.flags

\* The last operation: whether it changed the state (setState) or rendered
\* (microtask), the partial state it was given, and the component before it.
LastRx(op, changed, partial) ==
    [op |-> op, changed |-> changed, partial |-> partial,
     before |-> [state |-> rxState, rendered |-> rxRendered,
                 microtasks |-> rxMicrotasks]]

NoPartial == [f \in {} |-> ""]

\* A mounted component that has rendered its default state.
ReactiveStart ==
    /\ rxState = DefaultState
    /\ rxRendered = DefaultState
    /\ rxChanged = {}
    /\ rxMicrotasks = 0
    /\ rxPhase = "sync"
    /\ rxTurnChanges = 0
    /\ rxRenders = 0
    /\ rxFlags = [f \in Fields |-> TRUE]
    /\ lastRx = LastRx("init", FALSE, NoPartial)

\* Code running in the current turn calls setState.
SetState ==
    \E partial \in Partials :
        LET changes == changedFields(rxState, partial) # {}
        IN  /\ rxPhase = "sync"
            /\ changes => rxTurnChanges < MaxSetStates
            /\ AssignRx(setState(Rx, partial))
            /\ rxTurnChanges' = IF changes THEN rxTurnChanges + 1
                                ELSE rxTurnChanges
            /\ lastRx' = LastRx("setState", changes, partial)
            /\ UNCHANGED rxPhase
            /\ UNCHANGED notRx

\* The turn's synchronous code has run to its end.
EndTurn ==
    /\ rxPhase = "sync"
    /\ rxPhase' = "drain"
    /\ lastRx' = LastRx("endTurn", FALSE, NoPartial)
    /\ UNCHANGED <<rxState, rxRendered, rxChanged, rxMicrotasks,
                   rxTurnChanges, rxRenders, rxFlags>>
    /\ UNCHANGED notRx

\* The host runs one queued microtask.
RenderMicrotask ==
    /\ rxPhase = "drain"
    /\ rxMicrotasks > 0
    /\ AssignRx(renderMicrotask(Rx))
    /\ lastRx' = LastRx("microtask", rxChanged # {}, NoPartial)
    /\ UNCHANGED <<rxPhase, rxTurnChanges>>
    /\ UNCHANGED notRx

\* The microtask queue is empty; the next turn begins.
NextTurn ==
    /\ rxPhase = "drain"
    /\ rxMicrotasks = 0
    /\ rxPhase' = "sync"
    /\ rxTurnChanges' = 0
    /\ rxRenders' = 0
    /\ lastRx' = LastRx("nextTurn", FALSE, NoPartial)
    /\ UNCHANGED <<rxState, rxRendered, rxChanged, rxMicrotasks, rxFlags>>
    /\ UNCHANGED notRx

NextReactive ==
    \/ SetState
    \/ EndTurn
    \/ RenderMicrotask
    \/ NextTurn

-----------------------------------------------------------------------------
(* TabStripWrapper *)

TabPositions == {"top", "bottom", "left", "right"}

TabAligns == {"start", "center", "end", "stretch"}

\* getAttribute's result for an attribute the element does not have.
NoAttribute == "null"

\* What reading selectedIndex gives when no class defines the property.
UndefinedIndex == -2

\* The indices a selection takes in the model.
TabIndices == {0, 1}

\* What the inner tab strip does when a program assigns its selectedIndex:
\* it raises no selected-index-changed event, it raises one when the value
\* changed, or it raises one on every assignment.  An event is dispatched
\* synchronously, so its handler runs inside the assignment.
StripEchoes == {"never", "onChange", "onSet"}

\* A selected-index-changed event; those the tab strip raises are
\* CustomEvents whose detail is the strip's selectedIndex.
SelectedIndexChanged(isCustomEvent, index) ==
    [isCustomEvent |-> isCustomEvent, detail |-> [selectedIndex |-> index]]

\* [symbols.defaults], over a base class without defaults.
TabStripDefaults ==
    [role |-> "tablist", tabAlign |-> "start", tabPosition |-> "top"]

\* The nodes the template puts into the shadow root: the tab strip, the
\* pages element and the style element, with the template's whitespace text
\* nodes around them.
TemplateNodes == << "text1", "tabStrip", "text2", "pages", "text3", "style",
                    "text4" >>

\* The wrapper as a record, so that the setters compose.
TwEl == [ shadowRoot |-> twShadowRoot, children |-> twChildren,
          strip |-> twStrip, attributes |-> twAttributes,
          base |-> twBase, selectedIndex |-> twSelectedIndex ]

\* The position of a node among the children (0: not a child).
IndexOfNode(children, node) ==
    IF \E i \in 1..Len(children) : children[i] = node
    THEN CHOOSE i \in 1..Len(children) : children[i] = node
    ELSE 0

\* node.nextSibling: the next child, or null after the last one.
nextSibling(children, node) ==
    LET i == IndexOfNode(children, node)
    IN  IF i > 0 /\ i < Len(children) THEN children[i + 1] ELSE "null"

\* shadowRoot.insertBefore(node, reference): the node leaves its place and
\* is put right before the reference node.
insertBefore(children, node, reference) ==
    LET without == SelectSeq(children, LAMBDA n : n # node)
        r == IndexOfNode(without, reference)
    IN  SubSeq(without, 1, r - 1) \o <<node>> \o SubSeq(without, r, Len(without))

\* get tabStrip / get pages: this.shadowRoot.querySelector(...).  Without a
\* shadow root this.shadowRoot is null and the member access throws a
\* TypeError.
tabStrip(e) == [threw |-> ~e.shadowRoot, node |-> "tabStrip"]

pages(e) == [threw |-> ~e.shadowRoot, node |-> "pages"]

\* What a setter or handler of the wrapper leaves behind: the element,
\* whether an exception left it, whether console.warn was called and whether
\* a node of the shadow root was moved.
TwOutcome(e, threw, warned, moved) ==
    [el |-> e, threw |-> threw, warned |-> warned, moved |-> moved]

\* get tabAlign / get tabPosition: the inner tab strip's value.
getTabAlign(e) ==
    [threw |-> tabStrip(e).threw, value |-> e.strip.tabAlign]

getTabPosition(e) ==
    [threw |-> tabStrip(e).threw, value |-> e.strip.tabPosition]

\* A tabAlign setter that passes the value to the tab strip and does not
\* reflect it to the host attribute.
setTabAlign_NoReflect(e, tabAlign) ==
    IF tabStrip(e).threw THEN TwOutcome(e, TRUE, FALSE, FALSE)
    ELSE TwOutcome(IF e.strip.tabAlign # tabAlign
                   THEN [e EXCEPT !.strip.tabAlign = tabAlign] ELSE e,
                   FALSE, FALSE, FALSE)

\* set tabAlign(tabAlign)
setTabAlign(e, tabAlign) ==
    IF tabStrip(e).threw THEN TwOutcome(e, TRUE, FALSE, FALSE)
    ELSE LET e1 == IF e.strip.tabAlign # tabAlign
                   THEN [e EXCEPT !.strip.tabAlign = tabAlign] ELSE e
             e2 == IF e1.attributes.tabAlign # tabAlign
                   THEN [e1 EXCEPT !.attributes.tabAlign = tabAlign] ELSE e1
         IN  TwOutcome(e2, FALSE, FALSE, FALSE)

\* A tabPosition setter that stores and reflects the value and leaves the
\* nodes of the shadow root where they are.
setTabPosition_NoReorder(e, tabPosition) ==
    IF tabStrip(e).threw THEN TwOutcome(e, TRUE, FALSE, FALSE)
    ELSE TwOutcome([e EXCEPT !.strip.tabPosition = tabPosition,
                             !.attributes.tabPosition = tabPosition],
                   FALSE, FALSE, FALSE)

\* set tabPosition(tabPosition)
setTabPosition(e, tabPosition) ==
    IF tabStrip(e).threw THEN TwOutcome(e, TRUE, FALSE, FALSE)
    ELSE LET e1 == IF e.strip.tabPosition # tabPosition
                   THEN [e EXCEPT !.strip.tabPosition = tabPosition] ELSE e
             e2 == IF e1.attributes.tabPosition # tabPosition
                   THEN [e1 EXCEPT !.attributes.tabPosition = tabPosition]
                   ELSE e1
             topOrLeft == tabPosition = "top" \/ tabPosition = "left"
             firstElement == IF topOrLeft THEN tabStrip(e2) ELSE pages(e2)
             lastElement == IF topOrLeft THEN pages(e2) ELSE tabStrip(e2)
         IN  IF firstElement.threw \/ lastElement.threw
             THEN TwOutcome(e2, TRUE, FALSE, FALSE)
             ELSE IF ~e2.shadowRoot
             THEN TwOutcome(e2, FALSE, TRUE, FALSE)
             ELSE IF nextSibling(e2.children, firstElement.node)
                        # lastElement.node
             THEN TwOutcome([e2 EXCEPT !.children =
                                insertBefore(@, firstElement.node,
                                             lastElement.node)],
                            FALSE, FALSE, TRUE)
             ELSE TwOutcome(e2, FALSE, FALSE, FALSE)

\* connectedCallback(): the default role, then the two reflected properties
\* where the host has no attribute for them.
connectedCallback(e) ==
    LET defaults == TabStripDefaults
        e1 == IF e.attributes.role = NoAttribute
              THEN [e EXCEPT !.attributes.role = defaults.role] ELSE e
        a == IF e1.attributes.tabAlign = NoAttribute
             THEN setTabAlign(e1, defaults.tabAlign)
             ELSE TwOutcome(e1, FALSE, FALSE, FALSE)
    IN  IF a.threw THEN a
        ELSE IF a.el.attributes.tabPosition = NoAttribute
        THEN setTabPosition(a.el, defaults.tabPosition)
        ELSE a

\* What an assignment of selectedIndex leaves behind: the element, whether
\* an exception left it, the setter calls made, and whether the exchange
\* was given up.
SelectionOutcome(e, threw, rounds, exhausted) ==
    [el |-> e, threw |-> threw, rounds |-> rounds, exhausted |-> exhausted]

\* get selectedIndex(): super.selectedIndex.
getSelectedIndex(e) == IF e.base THEN e.selectedIndex ELSE UndefinedIndex

\* A selectedIndex setter that assigns the tab strip's selectedIndex whether
\* or not it differs, with the listener's call of the setter inside.
RECURSIVE setWrapperSelectedIndex_AlwaysWrites(_, _, _, _)
setWrapperSelectedIndex_AlwaysWrites(e, value, echo, fuel) ==
    LET e1 == IF e.base THEN [e EXCEPT !.selectedIndex = value] ELSE e
    IN  IF tabStrip(e1).threw THEN SelectionOutcome(e1, TRUE, 1, FALSE)
        ELSE LET changed == e1.strip.selectedIndex # value
                 e2 == [e1 EXCEPT !.strip.selectedIndex = value]
                 raised == echo = "onSet" \/ (echo = "onChange" /\ changed)
             IN  IF ~raised THEN SelectionOutcome(e2, FALSE, 1, FALSE)
                 ELSE IF fuel <= 1 THEN SelectionOutcome(e2, FALSE, 1, TRUE)
                 ELSE LET r == setWrapperSelectedIndex_AlwaysWrites(
                                  e2, value, echo, fuel - 1)
                      IN  [r EXCEPT !.rounds = @ + 1]

\* set selectedIndex(value), and the listener that [symbols.shadowCreated]
\* adds to the tab strip: each calls the other while the tab strip raises
\* events.  fuel is the number of setter calls allowed.
RECURSIVE setWrapperSelectedIndex(_, _, _, _)
RECURSIVE selectedIndexChangedListener(_, _, _, _)
setWrapperSelectedIndex(e, value, echo, fuel) ==
    LET e1 == IF e.base THEN [e EXCEPT !.selectedIndex = value] ELSE e
    IN  IF tabStrip(e1).threw THEN SelectionOutcome(e1, TRUE, 1, FALSE)
        ELSE IF e1.strip.selectedIndex # value
        THEN LET e2 == [e1 EXCEPT !.strip.selectedIndex = value]
                 raised == echo \in {"onSet", "onChange"}
             IN  IF ~raised THEN SelectionOutcome(e2, FALSE, 1, FALSE)
                 ELSE IF fuel <= 1 THEN SelectionOutcome(e2, FALSE, 1, TRUE)
                 ELSE LET r == selectedIndexChangedListener(
                                  e2, SelectedIndexChanged(TRUE, value), echo,
                                  fuel - 1)
                      IN  [r EXCEPT !.rounds = @ + 1]
        ELSE SelectionOutcome(e1, FALSE, 1, FALSE)

selectedIndexChangedListener(e, event, echo, fuel) ==
    IF event.isCustomEvent
    THEN setWrapperSelectedIndex(e, event.detail.selectedIndex, echo, fuel)
    ELSE SelectionOutcome(e, FALSE, 0, FALSE)

LastTw(op, value, o, before) ==
    [op |-> op, value |-> value, threw |-> o.threw, warned |-> o.warned,
     moved |-> o.moved, rounds |-> 0, exhausted |-> FALSE, before |-> before]

\* The record of an assignment of selectedIndex or of an event of the tab
\* strip: the setter calls it took, and whether it was given up.
LastSelection(op, value, o, before) ==
    [op |-> op, value |-> value, threw |-> o.threw, warned |-> FALSE,
     moved |-> FALSE, rounds |-> o.rounds, exhausted |-> o.exhausted,
     before |-> before]

AssignTw(e) ==
    /\ twShadowRoot' = e.shadowRoot
    /\ twChildren' = e.children
    /\ twStrip' = e.strip
    /\ twBase' = e.base
    /\ twSelectedIndex' = e.selectedIndex
    /\ twAttributes' = e.attributes

\* A wrapper element after construction: no shadow root yet, no attributes.
TabsStart ==
    /\ twShadowRoot = FALSE
    /\ twChildren = <<>>
    /\ twStrip = [tabPosition |-> "top", tabAlign |-> "start",
                  selectedIndex |-> -1]
    /\ twBase \in BOOLEAN
    /\ twSelectedIndex = IF twBase THEN -1 ELSE UndefinedIndex
    /\ twAttributes = [role |-> NoAttribute, tabAlign |-> NoAttribute,
                       tabPosition |-> NoAttribute]
    /\ lastTw = [op |-> "init", value |-> "", threw |-> FALSE,
                 warned |-> FALSE, moved |-> FALSE, rounds |-> 0,
                 exhausted |-> FALSE, before |-> TwEl]

\* The wrapper while another subsystem is studied.
TabsIdle ==
    /\ TabsStart
    /\ twBase

\* The template is stamped into a new shadow root.  The inner tab strip
\* comes with its own position and alignment.
ShadowCreated ==
    /\ ~twShadowRoot
    /\ \E p \in TabPositions, a \in TabAligns :
          LET e == [TwEl EXCEPT !.shadowRoot = TRUE,
                                !.children = TemplateNodes,
                                !.strip = [tabPosition |-> p, tabAlign |-> a,
                                           selectedIndex |-> -1]]
          IN  /\ AssignTw(e)
              /\ lastTw' = LastTw("shadowCreated", "",
                                  TwOutcome(e, FALSE, FALSE, FALSE), TwEl)
    /\ UNCHANGED notTw

SetTabPosition ==
    \E v \in TabPositions :
        LET o == setTabPosition(TwEl, v)
        IN  /\ AssignTw(o.el)
            /\ lastTw' = LastTw("tabPosition", v, o, TwEl)
            /\ UNCHANGED notTw

SetTabAlign ==
    \E v \in TabAligns :
        LET o == setTabAlign(TwEl, v)
        IN  /\ AssignTw(o.el)
            /\ lastTw' = LastTw("tabAlign", v, o, TwEl)
            /\ UNCHANGED notTw

ConnectedCallback ==
    LET o == connectedCallback(TwEl)
    IN  /\ AssignTw(o.el)
        /\ lastTw' = LastTw("connectedCallback", "", o, TwEl)
        /\ UNCHANGED notTw

\* A program assigns the wrapper's selectedIndex.
SetWrapperSelectedIndex ==
    \E v \in TabIndices, echo \in StripEchoes :
        LET o == setWrapperSelectedIndex(TwEl, v, echo, MaxRounds)
        IN  /\ AssignTw(o.el)
            /\ lastTw' = LastSelection("selectedIndex", v, o, TwEl)
            /\ UNCHANGED notTw

\* The user picks another tab in the tab strip: the strip changes its
\* selectedIndex and raises selected-index-changed, and the wrapper's
\* listener runs.
StripSelects ==
    /\ twShadowRoot
    /\ \E v \in TabIndices \ {twStrip.selectedIndex}, echo \in StripEchoes :
          LET e == [TwEl EXCEPT !.strip.selectedIndex = v]
              o == selectedIndexChangedListener(
                      e, SelectedIndexChanged(TRUE, v), echo, MaxRounds)
          IN  /\ AssignTw(o.el)
              /\ lastTw' = LastSelection("stripSelects", v, o, TwEl)
              /\ UNCHANGED notTw

NextTabs ==
    \/ ShadowCreated
    \/ SetTabPosition
    \/ SetTabAlign
    \/ ConnectedCallback
    \/ SetWrapperSelectedIndex
    \/ StripSelects

-----------------------------------------------------------------------------
(* ShadowTemplateMixin: the $ references *)

RefInstances == {1, 2}

\* The ids that elements of a shadow subtree carry.
ShadowIds == {"foo", "bar"}

\* The properties read from $: the ids, a name no element has, and a
\* property that is a symbol rather than a string.
RefProperties ==
    { [type |-> "string", name |-> n] : n \in ShadowIds \cup {"baz"} }
    \cup { [type |-> "symbol", name |-> "toPrimitive"] }

\* null, among element identities.
NullElement == 0

\* shadowRoot.getElementById(id): the element that has the id now, or null.
getElementById(root, id) ==
    IF id \in ShadowIds THEN root.content[id] ELSE NullElement

\* The proxy's get(target, property, receiver) handler: the value returned
\* and the proxy's target object afterwards.
proxyGet_Memoizing(target, element, property) ==
    IF property.name \in DOMAIN target
    THEN [value |-> target[property.name], target |-> target]
    ELSE LET v == IF element.attached /\ property.type = "string"
                  THEN getElementById(element, property.name)
                  ELSE NullElement
         IN  [value |-> v,
              target |-> [n \in DOMAIN target \cup {property.name} |->
                            IF n = property.name THEN v ELSE target[n]]]

proxyGet(target, element, property) ==
    [value |-> IF element.attached /\ property.type = "string"
               THEN getElementById(element, property.name)
               ELSE NullElement,
     target |-> target]

\* get $(): the proxy is made on first use and kept.
shadowReferences(proxy) ==
    IF ~proxy.created THEN [created |-> TRUE, target |-> <<>>] ELSE proxy

LastRef(op, i, property, value) ==
    [op |-> op, inst |-> i, property |-> property, value |-> value]

NoProperty == [type |-> "string", name |-> ""]

\* Two instances, neither rendered, $ not yet read.
RefsStart ==
    /\ refShadow = [i \in RefInstances |->
                      [attached |-> FALSE,
                       content |-> [n \in ShadowIds |-> NullElement]]]
    /\ refProxy = [i \in RefInstances |-> [created |-> FALSE, target |-> <<>>]]
    /\ refNodes = 0
    /\ lastRef = LastRef("init", 0, NoProperty, NullElement)

\* The instance is rendered: its template, with an element for each id, is
\* cloned into a new shadow root.
AttachShadow ==
    \E i \in RefInstances :
        /\ ~refShadow[i].attached
        /\ refNodes + 2 <= MaxNodes
        /\ refShadow' = [refShadow EXCEPT ![i] =
              [attached |-> TRUE,
               content |-> [n \in ShadowIds |->
                              IF n = "foo" THEN refNodes + 1
                              ELSE refNodes + 2]]]
        /\ refNodes' = refNodes + 2
        /\ lastRef' = LastRef("attach", i, NoProperty, NullElement)
        /\ UNCHANGED refProxy
        /\ UNCHANGED notRef

\* The element with an id is removed from an instance's shadow subtree.
RemoveElement ==
    \E i \in RefInstances, n \in ShadowIds :
        /\ refShadow[i].attached
        /\ refShadow[i].content[n] # NullElement
        /\ refShadow' = [refShadow EXCEPT ![i].content[n] = NullElement]
        /\ lastRef' = LastRef("remove", i, [type |-> "string", name |-> n],
                              refShadow[i].content[n])
        /\ UNCHANGED <<refProxy, refNodes>>
        /\ UNCHANGED notRef

\* A new element takes an id in an instance's shadow subtree, in the place
\* of the element that had it, if any.
ReplaceElement ==
    \E i \in RefInstances, n \in ShadowIds :
        /\ refShadow[i].attached
        /\ refNodes < MaxNodes
        /\ refShadow' = [refShadow EXCEPT ![i].content[n] = refNodes + 1]
        /\ refNodes' = refNodes + 1
        /\ lastRef' = LastRef("replace", i, [type |-> "string", name |-> n],
                              refShadow[i].content[n])
        /\ UNCHANGED refProxy
        /\ UNCHANGED notRef

\* this.$[property] is read.
Lookup ==
    \E i \in RefInstances, property \in RefProperties :
        LET proxy == shadowReferences(refProxy[i])
            r == proxyGet(proxy.target, refShadow[i], property)
        IN  /\ refProxy' = [refProxy EXCEPT ![i] =
                              [proxy EXCEPT !.target = r.target]]
            /\ lastRef' = LastRef("lookup", i, property, r.value)
            /\ UNCHANGED <<refShadow, refNodes>>
            /\ UNCHANGED notRef

NextRefs ==
    \/ AttachShadow
    \/ RemoveElement
    \/ ReplaceElement
    \/ Lookup

-----------------------------------------------------------------------------
(* defaultState along a chain of classes and mixins *)

\* {}: an object without properties.
EmptyObject == [f \in {} |-> ""]

\* null, where an array is expected.  An array is an object with an identity
\* and its elements.
NullArray == [id |-> 0, elems |-> <<>>]

\* Object.assign(target, source): the source's properties are copied onto
\* the target, over what the target holds for them.
objectAssign_KeepsTarget(target, source) ==
    [f \in DOMAIN target \cup DOMAIN source |->
        IF f \in DOMAIN target THEN target[f] ELSE source[f]]

objectAssign(target, source) ==
    [f \in DOMAIN target \cup DOMAIN source |->
        IF f \in DOMAIN source THEN source[f] ELSE target[f]]

\* The classes and mixins that contribute defaults.
Layers == {"Button", "TabButton", "Menu", "TabStripWrapper", "Dialog",
           "Explorer"}

\* The object literal each layer passes to Object.assign.
Contribution(layer) ==
    CASE layer = "Button" -> [role |-> "button"]
      [] layer = "TabButton" ->
            [overlapPanel |-> TRUE, selected |-> FALSE, tabAlign |-> "start",
             treatEnterAsClick |-> FALSE, treatSpaceAsClick |-> FALSE,
             position |-> "top"]
      [] layer = "Menu" -> [role |-> "menu", itemRole |-> "menuitem"]
      [] layer = "TabStripWrapper" -> TabStripDefaults
      [] layer = "Dialog" ->
            [backdropPartType |-> "ModalBackdrop", tabIndex |-> -1]
      [] layer = "Explorer" ->
            [assignedProxies |-> <<>>, defaultProxies |-> <<>>,
             itemsForDefaultProxies |-> NullArray,
             proxyListOverlap |-> FALSE, proxyListPosition |-> "top"]

\* get defaultState() of a layer, given the defaults of the class below it.
\* Menu and Explorer assign onto a fresh object, the others onto the object
\* the class below returned.
defaultState(layer, superDefaultState) ==
    IF layer \in {"Menu", "Explorer"}
    THEN objectAssign(objectAssign(EmptyObject, superDefaultState),
                      Contribution(layer))
    ELSE objectAssign(superDefaultState, Contribution(layer))

\* The base class alone: no defaults.
DefaultsStart ==
    /\ dfChain = <<>>
    /\ dfDefaults = EmptyObject

\* A layer is applied on top of the class: class X extends Layer(Base).
ApplyLayer ==
    \E layer \in Layers :
        /\ Len(dfChain) < MaxLayers
        /\ \A k \in 1..Len(dfChain) : dfChain[k] # layer
        /\ dfChain' = Append(dfChain, layer)
        /\ dfDefaults' = defaultState(layer, dfDefaults)
        /\ UNCHANGED notDf

NextDefaults ==
    \/ ApplyLayer

-----------------------------------------------------------------------------
(* ContentItemsMixin on the reactive cycle *)

\* A child element: its tag and its text.
Child(tag, text) == [tag |-> tag, text |-> text]

\* The markup the element's innerHTML is set to, as lists of child elements.
ChildLists ==
    { <<>>,
      << Child("style", ""), Child("div", "1"), Child("div", "2") >>,
      << Child("div", "1"), Child("div", "2"), Child("div", "3") >>,
      << Child("div", "1"), Child("div", "2") >>,
      << Child("style", "") >>,
      << Child("div", "2"), Child("script", ""), Child("div", "1") >> }

\* null, for state.content and state.items before any content was set.
NullList == [isNull |-> TRUE, elems |-> <<>>]

List(elems) == [isNull |-> FALSE, elems |-> elems]

\* Elements that are not content a user sees.
AuxiliaryTags == {"link", "script", "style", "template"}

isSubstantiveElement(element) == element.tag \notin AuxiliaryTags

\* The items for a content: its substantive elements, in content order.
itemsForContent_KeepsAuxiliary(content) ==
    content

itemsForContent(content) ==
    IF content.isNull THEN NullList
    ELSE List(SelectSeq(content.elems, isSubstantiveElement))

Ci == [ content |-> ciContent, items |-> ciItems, connected |-> ciConnected,
        raiseChangeEvents |-> ciRaiseChangeEvents,
        raiseInNextRender |-> ciRaiseInNextRender,
        itemsChanged |-> ciItemsChanged, renderQueued |-> ciRenderQueued ]

\* setState({ content }): a no-op when the content is the one the state
\* has.  Otherwise the state takes the content and, in the same call, the
\* items computed from it; raiseChangeEvents is remembered for the render,
\* which is queued when the element is in the document.
setContent(c, content) ==
    IF content = c.content THEN c
    ELSE LET newItems == itemsForContent(content)
         IN  [c EXCEPT !.content = content,
                       !.items = newItems,
                       !.itemsChanged = @ \/ newItems # c.items,
                       !.raiseInNextRender = @ \/ c.raiseChangeEvents,
                       !.renderQueued = @ \/ c.connected]

\* The render microtask of a component that raises items-changed when
\* raiseChangeEvents is set at the time of the render.
renderContent_ReadsFlagLate(c) ==
    [el |-> [c EXCEPT !.itemsChanged = FALSE, !.raiseInNextRender = FALSE,
                      !.renderQueued = FALSE],
     raised |-> c.itemsChanged /\ c.raiseChangeEvents]

\* The render microtask: renders, then raises items-changed when the items
\* changed since the last render and raiseChangeEvents was set when they
\* did.  Returns the component and whether the event was raised.
renderContent(c) ==
    [el |-> [c EXCEPT !.itemsChanged = FALSE, !.raiseInNextRender = FALSE,
                      !.renderQueued = FALSE],
     raised |-> c.itemsChanged /\ c.raiseInNextRender]

AssignCi(c) ==
    /\ ciContent' = c.content
    /\ ciItems' = c.items
    /\ ciConnected' = c.connected
    /\ ciRaiseChangeEvents' = c.raiseChangeEvents
    /\ ciRaiseInNextRender' = c.raiseInNextRender
    /\ ciItemsChanged' = c.itemsChanged
    /\ ciRenderQueued' = c.renderQueued

LastCi(op, raised) ==
    [op |-> op, raised |-> raised, before |-> Ci, children |-> ciChildren]

\* new ContentItemsTest(): no children, no content, not in the document.
ContentStart ==
    /\ ciChildren = <<>>
    /\ ciContent = NullList
    /\ ciItems = NullList
    /\ ciConnected = FALSE
    /\ ciRaiseChangeEvents = FALSE
    /\ ciRaiseInNextRender = FALSE
    /\ ciItemsChanged = FALSE
    /\ ciRenderQueued = FALSE
    /\ ciOwed = FALSE
    /\ lastCi = [op |-> "init", raised |-> FALSE, before |-> Ci,
                 children |-> <<>>]

\* fixture.innerHTML = ...: the children change; the state does not.
SetInnerHTML ==
    \E children \in ChildLists :
        /\ children # ciChildren
        /\ ciChildren' = children
        /\ lastCi' = LastCi("innerHTML", FALSE)
        /\ UNCHANGED <<ciContent, ciItems, ciConnected, ciRaiseChangeEvents,
                       ciRaiseInNextRender, ciItemsChanged, ciRenderQueued,
                       ciOwed>>
        /\ UNCHANGED notCi

\* fixture.updateContent(): the children are copied into state.content.
UpdateContent ==
    LET c == setContent(Ci, List(ciChildren))
    IN  /\ AssignCi(c)
        /\ ciOwed' = (ciOwed \/ (ciConnected /\ ciRaiseChangeEvents
                                   /\ c.items # ciItems))
        /\ lastCi' = LastCi("updateContent", FALSE)
        /\ UNCHANGED ciChildren
        /\ UNCHANGED notCi

\* container.appendChild(fixture): the element enters the document and its
\* first render is queued.
Connect ==
    /\ ~ciConnected
    /\ AssignCi([Ci EXCEPT !.connected = TRUE, !.renderQueued = TRUE])
    /\ lastCi' = LastCi("connect", FALSE)
    /\ UNCHANGED <<ciChildren, ciOwed>>
    /\ UNCHANGED notCi

\* fixture[raiseChangeEvents] = b: set by a handler around its work.
SetRaiseChangeEvents ==
    \E b \in BOOLEAN :
        /\ b # ciRaiseChangeEvents
        /\ AssignCi([Ci EXCEPT !.raiseChangeEvents = b])
        /\ lastCi' = LastCi("raiseChangeEvents", FALSE)
        /\ UNCHANGED <<ciChildren, ciOwed>>
        /\ UNCHANGED notCi

\* The host runs the queued render microtask.
RenderContent ==
    /\ ciRenderQueued
    /\ LET r == renderContent(Ci)
       IN  /\ AssignCi(r.el)
           /\ ciOwed' = (ciOwed /\ ~r.raised)
           /\ lastCi' = LastCi("render", r.raised)
    /\ UNCHANGED ciChildren
    /\ UNCHANGED notCi

NextContent ==
    \/ SetInnerHTML
    \/ UpdateContent
    \/ Connect
    \/ SetRaiseChangeEvents
    \/ RenderContent

-----------------------------------------------------------------------------
(* Explorer: refineState and the proxies *)

\* undefined, where an array is expected (state.items before it is set).
UndefinedArray == [id |-> -1, elems |-> <<>>]

\* The arrays state.items is set to.  Arrays are immutable and compared by
\* identity: arrays 2 and 4 hold the same elements and are different arrays.
ItemArrays ==
    { [id |-> 1, elems |-> <<"a">>], [id |-> 2, elems |-> <<"a", "b">>],
      [id |-> 3, elems |-> <<>>], [id |-> 4, elems |-> <<"a", "b">>] }

\* Is the value an array (truthy), rather than null or undefined?
IsArray(a) == a.id > 0

\* The elements assigned to the proxy slot.
AssignedLists ==
    { <<>>, <<[kind |-> "assigned", tag |-> "button"]>>,
      <<[kind |-> "assigned", tag |-> "button"],
        [kind |-> "assigned", tag |-> "img"]>> }

\* this.proxyRole: the tag of default proxies.
ProxyRole == "div"

\* createDefaultProxies(items, proxyRole): a new element per item, none
\* without items.
createDefaultProxies(itemArray, proxyRole) ==
    IF IsArray(itemArray)
    THEN [k \in 1..Len(itemArray.elems) |->
            [kind |-> "default", tag |-> proxyRole]]
    ELSE <<>>

\* get proxies()
proxies(state) ==
    IF Len(state.defaultProxies) > 0 THEN state.defaultProxies
    ELSE state.assignedProxies

\* A refineState that does not give assigned proxies precedence.
refineState_NoPrecedence(state) ==
    LET assignedCount == Len(state.assignedProxies)
    IN  IF assignedCount = 0 /\ state.items.id # state.itemsForDefaultProxies.id
        THEN [state |-> [state EXCEPT
                  !.defaultProxies = createDefaultProxies(state.items, ProxyRole),
                  !.itemsForDefaultProxies = state.items],
              result |-> FALSE]
        ELSE [state |-> state, result |-> TRUE]

\* A refineState that does not remember the items it made proxies for.
refineState_ForgetsItems(state) ==
    LET assignedCount == Len(state.assignedProxies)
        defaultCount == Len(state.defaultProxies)
    IN  IF assignedCount > 0 /\ defaultCount > 0
        THEN [state |-> [state EXCEPT !.defaultProxies = <<>>,
                                      !.itemsForDefaultProxies = NullArray],
              result |-> FALSE]
        ELSE IF assignedCount = 0
                  /\ state.items.id # state.itemsForDefaultProxies.id
        THEN [state |-> [state EXCEPT
                  !.defaultProxies = createDefaultProxies(state.items, ProxyRole)],
              result |-> FALSE]
        ELSE [state |-> state, result |-> TRUE]

\* refineState(state): the state afterwards and the result, true when the
\* state is settled.  The class below Explorer has no refineState.
refineState(state) ==
    LET assignedCount == Len(state.assignedProxies)
        defaultCount == Len(state.defaultProxies)
    IN  IF assignedCount > 0 /\ defaultCount > 0
        THEN [state |-> [state EXCEPT !.defaultProxies = <<>>,
                                      !.itemsForDefaultProxies = NullArray],
              result |-> FALSE]
        ELSE IF assignedCount = 0
                  /\ state.items.id # state.itemsForDefaultProxies.id
        THEN [state |-> [state EXCEPT
                  !.defaultProxies = createDefaultProxies(state.items, ProxyRole),
                  !.itemsForDefaultProxies = state.items],
              result |-> FALSE]
        ELSE [state |-> state, result |-> TRUE]

\* refineState is applied until it reports the state settled, for at most
\* `fuel` passes: the state reached, the passes made and whether the state
\* settled within them.
RECURSIVE refineUntilSettled(_, _, _)
refineUntilSettled(state, passes, fuel) ==
    IF fuel = 0 THEN [state |-> state, passes |-> passes, settled |-> FALSE]
    ELSE LET r == refineState(state)
         IN  IF r.result
             THEN [state |-> r.state, passes |-> passes + 1, settled |-> TRUE]
             ELSE refineUntilSettled(r.state, passes + 1, fuel - 1)

\* get defaultState(): items is not set yet.
ExplorerDefaultState ==
    [items |-> UndefinedArray,
     assignedProxies |-> Contribution("Explorer").assignedProxies,
     defaultProxies |-> Contribution("Explorer").defaultProxies,
     itemsForDefaultProxies |-> Contribution("Explorer").itemsForDefaultProxies]

LastEx(op, before, r) ==
    [op |-> op, before |-> before, passes |-> r.passes]

\* A setState on the Explorer: a no-op when the state does not change,
\* otherwise the new state is refined until settled.
SetExplorerState(op, merged) ==
    /\ exSettled
    /\ merged # exState
    /\ LET r == refineUntilSettled(merged, 0, MaxRefinePasses)
       IN  /\ exState' = r.state
           /\ exSettled' = r.settled
           /\ lastEx' = LastEx(op, merged, r)
    /\ UNCHANGED notEx

\* A constructed Explorer: its default state, refined.
ExplorerStart ==
    LET r == refineUntilSettled(ExplorerDefaultState, 0, MaxRefinePasses)
    IN  /\ exState = r.state
        /\ exSettled = r.settled
        /\ lastEx = LastEx("init", ExplorerDefaultState, r)

\* Any state record an Explorer may be handed, not yet refined.
ExplorerStates ==
    [items : ItemArrays \cup {NullArray, UndefinedArray},
     assignedProxies : AssignedLists,
     defaultProxies : { createDefaultProxies(a, ProxyRole) : a \in ItemArrays },
     itemsForDefaultProxies : ItemArrays \cup {NullArray, UndefinedArray}]

AnyExplorerState ==
    /\ exState \in ExplorerStates
    /\ exSettled = FALSE
    /\ lastEx = [op |-> "init", before |-> exState, passes |-> 0]

\* The component's items change (state.items is a new array, or null).
SetItems ==
    \E a \in ItemArrays \cup {NullArray} :
        SetExplorerState("items", [exState EXCEPT !.items = a])

\* updateAssignedProxies(element): the nodes assigned to the proxy slot are
\* put into the state.
UpdateAssignedProxies ==
    \E assigned \in AssignedLists :
        SetExplorerState("assignedProxies",
                         [exState EXCEPT !.assignedProxies = assigned])

\* The state is refined until refineState reports it settled.
Refine ==
    /\ ~exSettled
    /\ LET r == refineUntilSettled(exState, 0, MaxRefinePasses)
       IN  /\ exState' = r.state
           /\ exSettled' = r.settled
           /\ lastEx' = LastEx("refine", exState, r)
    /\ UNCHANGED notEx

NextExplorer ==
    \/ SetItems
    \/ UpdateAssignedProxies

NextRefine ==
    \/ Refine
    \/ SetItems
    \/ UpdateAssignedProxies

-----------------------------------------------------------------------------
(* Explorer: mounting and the proxy slot *)

\* The mounting element as a record, so that the callbacks compose.
MtEl == [ mounted |-> mtMounted, slotchangeFired |-> mtSlotchangeFired,
          microtasks |-> mtMicrotasks, slot |-> mtSlot,
          assignedProxies |-> mtAssignedProxies, reads |-> mtReads,
          checks |-> mtChecks ]

\* updateAssignedProxies(element): the slot's assigned nodes are read and
\* passed to setState.
updateAssignedProxies(e) ==
    [e EXCEPT !.assignedProxies = e.slot, !.reads = @ + 1]

\* componentDidMount(): the listeners are added and the deferred check is
\* queued as a microtask.
componentDidMount(e) ==
    [e EXCEPT !.mounted = TRUE, !.microtasks = @ + 1]

\* The slotchange listener of the proxy slot.
slotchangeListener(e) ==
    updateAssignedProxies([e EXCEPT !.slotchangeFired = TRUE])

\* A deferred check that reads the slot whether or not a slotchange has
\* fired.
deferredCheck_AlwaysReads(e) ==
    LET e1 == [e EXCEPT !.microtasks = @ - 1, !.checks = @ + 1]
    IN  updateAssignedProxies([e1 EXCEPT !.slotchangeFired = TRUE])

\* The callback of Promise.resolve().then(...): the deferred check.
deferredCheck(e) ==
    LET e1 == [e EXCEPT !.microtasks = @ - 1, !.checks = @ + 1]
    IN  IF ~e1.slotchangeFired
        THEN updateAssignedProxies([e1 EXCEPT !.slotchangeFired = TRUE])
        ELSE e1

LastMt(op, before) == [op |-> op, before |-> before]

AssignMt(e) ==
    /\ mtMounted' = e.mounted
    /\ mtSlotchangeFired' = e.slotchangeFired
    /\ mtMicrotasks' = e.microtasks
    /\ mtSlot' = e.slot
    /\ mtAssignedProxies' = e.assignedProxies
    /\ mtReads' = e.reads
    /\ mtChecks' = e.checks

\* An Explorer before it is mounted: any nodes may be assigned to its proxy
\* slot already; the browser raises a slotchange for them or, like Safari,
\* none.
MountStart ==
    /\ mtMounted = FALSE
    /\ mtSlotchangeFired = FALSE
    /\ mtMicrotasks = 0
    /\ mtPendingSlotchange \in BOOLEAN
    /\ mtSlot \in AssignedLists
    /\ mtAssignedProxies = Contribution("Explorer").assignedProxies
    /\ mtReads = 0
    /\ mtChecks = 0
    /\ mtAssigns = 0
    /\ lastMt = LastMt("init", MtEl)

\* This part while another subsystem is studied.
MountIdle ==
    /\ MountStart
    /\ ~mtPendingSlotchange
    /\ mtSlot = <<>>

\* The element is connected for the first time.
Mount ==
    /\ ~mtMounted
    /\ AssignMt(componentDidMount(MtEl))
    /\ lastMt' = LastMt("mount", MtEl)
    /\ UNCHANGED <<mtPendingSlotchange, mtAssigns>>
    /\ UNCHANGED notMt

\* Other nodes are assigned to the proxy slot; the browser queues a
\* slotchange event for it, or none.
AssignToSlot ==
    /\ mtAssigns < MaxSlotAssigns
    /\ \E nodes \in AssignedLists \ {mtSlot}, fires \in BOOLEAN :
          /\ AssignMt([MtEl EXCEPT !.slot = nodes])
          /\ mtPendingSlotchange' = (mtPendingSlotchange \/ fires)
    /\ mtAssigns' = mtAssigns + 1
    /\ lastMt' = LastMt("assignToSlot", MtEl)
    /\ UNCHANGED notMt

\* The queued slotchange event is dispatched: the listener runs when it has
\* been added, and nobody hears the event before that.
DispatchSlotchange ==
    /\ mtPendingSlotchange
    /\ mtPendingSlotchange' = FALSE
    /\ AssignMt(IF mtMounted THEN slotchangeListener(MtEl) ELSE MtEl)
    /\ lastMt' = LastMt("slotchange", MtEl)
    /\ UNCHANGED mtAssigns
    /\ UNCHANGED notMt

\* The microtask queued by componentDidMount runs.
DeferredCheck ==
    /\ mtMicrotasks > 0
    /\ AssignMt(deferredCheck(MtEl))
    /\ lastMt' = LastMt("deferredCheck", MtEl)
    /\ UNCHANGED <<mtPendingSlotchange, mtAssigns>>
    /\ UNCHANGED notMt

NextMount ==
    \/ Mount
    \/ AssignToSlot
    \/ DispatchSlotchange
    \/ DeferredCheck

-----------------------------------------------------------------------------
(* Explorer: the selection of the stage and the proxy list *)

\* The inner elements whose selected-index-changed events the Explorer
\* listens to.
InnerElements == {"stage", "proxyList"}

\* The indices a selection takes in the model; -1 is no selection.
SelectionIndices == {-1, 0, 1}

\* The Explorer as a record, so that the handlers compose.
SyEl == [ selectedIndex |-> sySelectedIndex,
          raiseChangeEvents |-> syRaiseChangeEvents,
          raiseInNextRender |-> syRaiseInNextRender,
          renderQueued |-> syRenderQueued,
          proxyList |-> syProxyList, stage |-> syStage,
          events |-> syEvents, handled |-> syHandled ]

\* this.selectedIndex = index: setState({ selectedIndex }).  A state that
\* does not differ changes nothing; a changed state queues a render, and
\* the render raises the change event when raiseChangeEvents was set at the
\* time of the change.
setStateSelectedIndex(e, index) ==
    IF e.selectedIndex = index THEN e
    ELSE [e EXCEPT !.selectedIndex = index,
                   !.raiseInNextRender = @ \/ e.raiseChangeEvents,
                   !.renderQueued = TRUE]

\* A handler that leaves raiseChangeEvents set when it returns.
handleSelectedIndexChanged_LeavesFlag(e, event) ==
    LET e1 == [e EXCEPT !.raiseChangeEvents = TRUE, !.handled = @ + 1]
        index == event.detail.selectedIndex
    IN  IF e1.selectedIndex # index
        THEN setStateSelectedIndex(e1, index) ELSE e1

\* handleSelectedIndexChanged(event), the listener componentDidMount adds to
\* the stage and to the proxy list.
handleSelectedIndexChanged(e, event) ==
    LET e1 == [e EXCEPT !.raiseChangeEvents = TRUE, !.handled = @ + 1]
        index == event.detail.selectedIndex
        e2 == IF e1.selectedIndex # index
              THEN setStateSelectedIndex(e1, index) ELSE e1
    IN  [e2 EXCEPT !.raiseChangeEvents = FALSE]

\* The part of `updates` that concerns the selection: the Explorer's
\* selectedIndex for the proxy list and for the stage.
updates(e) ==
    [proxyList |-> [selectedIndex |-> e.selectedIndex],
     stage |-> [selectedIndex |-> e.selectedIndex]]

\* The render microtask: the updates are applied to the inner elements,
\* which raise no event for a selectedIndex a program assigns, and the
\* Explorer raises its own change event when one is due.
renderUpdates(e) ==
    LET u == updates(e)
    IN  [e EXCEPT !.proxyList = u.proxyList.selectedIndex,
                  !.stage = u.stage.selectedIndex,
                  !.events = IF e.raiseInNextRender THEN @ + 1 ELSE @,
                  !.raiseInNextRender = FALSE,
                  !.renderQueued = FALSE]

LastSy(op, source, index, before) ==
    [op |-> op, source |-> source, index |-> index, before |-> before]

AssignSy(e) ==
    /\ sySelectedIndex' = e.selectedIndex
    /\ syRaiseChangeEvents' = e.raiseChangeEvents
    /\ syRaiseInNextRender' = e.raiseInNextRender
    /\ syRenderQueued' = e.renderQueued
    /\ syProxyList' = e.proxyList
    /\ syStage' = e.stage
    /\ syEvents' = e.events
    /\ syHandled' = e.handled

\* A mounted Explorer after its first render: nothing is selected.
SyncStart ==
    /\ sySelectedIndex = -1
    /\ syRaiseChangeEvents = FALSE
    /\ syRaiseInNextRender = FALSE
    /\ syRenderQueued = FALSE
    /\ syProxyList = -1
    /\ syStage = -1
    /\ syEvents = 0
    /\ syHandled = 0
    /\ syPicks = 0
    /\ lastSy = LastSy("init", "none", -1, SyEl)

\* The user selects another item in the stage or in the proxy list: the
\* inner element changes its selectedIndex and raises
\* selected-index-changed, and the Explorer's handler runs.
UserSelects ==
    /\ syPicks < MaxPicks
    /\ \E source \in InnerElements, index \in SelectionIndices :
          /\ index # (IF source = "stage" THEN syStage ELSE syProxyList)
          /\ LET e == IF source = "stage"
                      THEN [SyEl EXCEPT !.stage = index]
                      ELSE [SyEl EXCEPT !.proxyList = index]
             IN  AssignSy(handleSelectedIndexChanged(
                             e, SelectedIndexChanged(TRUE, index)))
          /\ lastSy' = LastSy("selectedIndexChanged", source, index, SyEl)
    /\ syPicks' = syPicks + 1
    /\ UNCHANGED notSy

\* A program assigns the Explorer's selectedIndex.
SetExplorerSelectedIndex ==
    /\ syPicks < MaxPicks
    /\ \E index \in SelectionIndices \ {sySelectedIndex} :
          /\ AssignSy(setStateSelectedIndex(SyEl, index))
          /\ lastSy' = LastSy("selectedIndex", "none", index, SyEl)
    /\ syPicks' = syPicks + 1
    /\ UNCHANGED notSy

\* The queued render runs.
RenderExplorer ==
    /\ syRenderQueued
    /\ AssignSy(renderUpdates(SyEl))
    /\ lastSy' = LastSy("render", "none", sySelectedIndex, SyEl)
    /\ UNCHANGED syPicks
    /\ UNCHANGED notSy

NextSync ==
    \/ UserSelects
    \/ SetExplorerSelectedIndex
    \/ RenderExplorer

-----------------------------------------------------------------------------
(* Menu: itemsForState *)

\* An item of a menu: its identity and its disabled property.
MenuItem(id, disabled) == [id |-> id, disabled |-> disabled]

MenuItems == { MenuItem(id, d) : id \in 1..3, d \in BOOLEAN }

\* What the base class's itemsForState returns: null, or an array of up to
\* MaxMenuItems items.
BaseItemLists ==
    {NullList} \cup
    UNION { { List(s) : s \in [1..n -> MenuItems] } : n \in 0..MaxMenuItems }

\* An itemsForState that returns the base class's items as they are.
itemsForState_KeepsDisabled(base) ==
    IF ~base.isNull THEN base ELSE List(<<>>)

\* itemsForState(state), given what super.itemsForState(state) returned;
\* null is falsy and an array, even an empty one, is truthy.
itemsForState(base) ==
    IF ~base.isNull
    THEN List(SelectSeq(base.elems, LAMBDA item : ~item.disabled))
    ELSE List(<<>>)

\* A menu whose itemsForState has not been called yet.
MenuStart ==
    /\ mnBase = NullList
    /\ mnItems = NullList
    /\ mnCalled = FALSE

\* itemsForState is called with a state for which the base class returns
\* base.
ItemsForState ==
    /\ \E base \in BaseItemLists :
          /\ mnBase' = base
          /\ mnItems' = itemsForState(base)
    /\ mnCalled' = TRUE
    /\ UNCHANGED notMn

NextMenu ==
    \/ ItemsForState

-----------------------------------------------------------------------------
(* ItemsTextMixin *)

\* The items a component is given in this part: two plain items, an item
\* with an alt attribute and an item with an empty alt attribute.
TextItems == { Fruit[1], Fruit[3], WithAlt[1], WithAlt[2] }

\* state.items once the content is known: an array of up to MaxItemsLen
\* items.
TextItemLists ==
    UNION { { List(s) : s \in [1..n -> TextItems] } : n \in 0..MaxItemsLen }

\* A handler that computes the texts once and keeps them.
itemsChangeHandler_KeepsTexts(state) ==
    IF state.texts.isNull /\ ~state.items.isNull
    THEN [changes |-> TRUE,
          texts |-> List(getTextsFromItems(state.items.elems))]
    ELSE [changes |-> FALSE, texts |-> NullList]

\* The callback of state.onChange('items', ...): the texts of the items,
\* frozen, as the change to make; or null, no change, when
\* getTextsFromItems returns null, which it does for items that are null.
itemsChangeHandler(state) ==
    LET texts == IF ~state.items.isNull
                 THEN List(getTextsFromItems(state.items.elems))
                 ELSE NullList
    IN  IF ~texts.isNull
        THEN [changes |-> TRUE, texts |-> texts]
        ELSE [changes |-> FALSE, texts |-> NullList]

\* setState({ items }): the state with the new items, refined by the
\* handlers registered for the fields that changed.
setStateItems(state, newItems) ==
    IF newItems = state.items THEN state
    ELSE LET s1 == [state EXCEPT !.items = newItems]
             h == itemsChangeHandler(s1)
         IN  IF h.changes THEN [s1 EXCEPT !.texts = h.texts] ELSE s1

\* defaultState: no items and no texts yet.
TextsStart ==
    /\ txItems = NullList
    /\ txTexts = NullList
    /\ lastTx = [op |-> "init", before |-> [items |-> NullList,
                                            texts |-> NullList]]

\* The component's items change.
ItemsChange ==
    \E newItems \in TextItemLists \ {txItems} :
        LET state == [items |-> txItems, texts |-> txTexts]
            s == setStateItems(state, newItems)
        IN  /\ txItems' = s.items
            /\ txTexts' = s.texts
            /\ lastTx' = [op |-> "items", before |-> state]
            /\ UNCHANGED notTx

NextTexts ==
    \/ ItemsChange

-----------------------------------------------------------------------------
(* TabStripWrapper: itemsChanged *)

\* Two wrappers on one page share the module's idCount: the first has no
\* id and two children, the second has the id "a" and one child.
TabWrappers == {1, 2}
PanelElements == {1, 2, 3}
wrapperId(w) == IF w = 1 THEN "" ELSE "a"
wrapperChildren(w) == IF w = 1 THEN <<1, 2>> ELSE <<3>>

\* this.items when itemsChanged is called: null before the content is
\* known, the wrapper's children afterwards.
wrapperItems(w) == {NullList, List(wrapperChildren(w))}

\* What a page's author gives an item: no role attribute, an empty one or
\* a role; no id or an id.
AuthorRoles == {NoAttribute, "", "tab"}
AuthorIds == {"", "x"}

\* baseId of itemsChanged.
baseId(w) ==
    IF wrapperId(w) # "" THEN "_" \o wrapperId(w) \o "Panel" ELSE "_panel"

\* The body of the forEach with idCount in place of idCount++.
confirmItem_NoIncrement(item, base, count) ==
    LET noRole == item.role = NoAttribute \/ item.role = ""
        noId == item.id = ""
    IN  [item |-> [role |-> IF noRole THEN "tabpanel" ELSE item.role,
                   id |-> IF noId THEN base \o ToString(count) ELSE item.id],
         idCount |-> count,
         generated |-> IF noId THEN << base \o ToString(count) >> ELSE <<>>]

\* The body of the forEach: an item without a role gets the role tabpanel,
\* an item without an id gets baseId + idCount++.
confirmItem(item, base, count) ==
    LET noRole == item.role = NoAttribute \/ item.role = ""
        noId == item.id = ""
    IN  [item |-> [role |-> IF noRole THEN "tabpanel" ELSE item.role,
                   id |-> IF noId THEN base \o ToString(count) ELSE item.id],
         idCount |-> IF noId THEN count + 1 ELSE count,
         generated |-> IF noId THEN << base \o ToString(count) >> ELSE <<>>]

\* this.items.forEach(...), from the k-th item on.
RECURSIVE confirmItems(_, _, _, _)
confirmItems(st, its, base, k) ==
    IF k > Len(its) THEN st
    ELSE LET r == confirmItem(st.elements[its[k]], base, st.idCount)
         IN  confirmItems([elements |-> [st.elements EXCEPT ![its[k]] = r.item],
                           idCount |-> r.idCount,
                           generated |-> st.generated \o r.generated],
                          its, base, k + 1)

\* itemsChanged of wrapper w whose items are the given ones.
wrapperItemsChanged(st, w, its) ==
    IF its.isNull THEN st
    ELSE confirmItems(st, its.elems, baseId(w), 1)

LastIds(op, w, its, elements, count) ==
    [op |-> op, wrapper |-> w, items |-> its,
     before |-> [elements |-> elements, idCount |-> count]]

\* The last step was not a call of itemsChanged.
NoItemsChanged ==
    LastIds("none", 0, NullList,
            [i \in PanelElements |-> [role |-> NoAttribute, id |-> ""]], 0)

\* The module is loaded (let idCount = 0) and the page's items are as
\* their author wrote them, here without roles and ids.
IdsStart ==
    /\ idCount = 0
    /\ idElements = [i \in PanelElements |-> [role |-> NoAttribute, id |-> ""]]
    /\ idGenerated = <<>>
    /\ lastIds = NoItemsChanged

\* The author's script sets or removes an item's role attribute.
AuthorSetsRole ==
    \E i \in PanelElements, role \in AuthorRoles :
        /\ idElements' = [idElements EXCEPT ![i].role = role]
        /\ lastIds' = NoItemsChanged
        /\ UNCHANGED <<idCount, idGenerated>>
        /\ UNCHANGED notId

\* The author's script sets or removes an item's id.
AuthorSetsId ==
    \E i \in PanelElements, id \in AuthorIds :
        /\ idElements' = [idElements EXCEPT ![i].id = id]
        /\ lastIds' = NoItemsChanged
        /\ UNCHANGED <<idCount, idGenerated>>
        /\ UNCHANGED notId

\* A wrapper's itemsChanged is called.
WrapperItemsChanged ==
    \E w \in TabWrappers :
        \E its \in wrapperItems(w) :
            LET st == wrapperItemsChanged([elements |-> idElements,
                                    idCount |-> idCount,
                                    generated |-> idGenerated], w, its)
            IN  /\ Len(st.generated) <= MaxGeneratedIds
                /\ idElements' = st.elements
                /\ idCount' = st.idCount
                /\ idGenerated' = st.generated
                /\ lastIds' = LastIds("itemsChanged", w, its,
                                      idElements, idCount)
                /\ UNCHANGED notId

NextIds ==
    \/ AuthorSetsRole
    \/ AuthorSetsId
    \/ WrapperItemsChanged

-----------------------------------------------------------------------------
(* Specifications *)

\* The prefix mixin: any item list; the other subsystems rest.
InitPrefix ==
    /\ PrefixStart
    /\ TemplateIdle
    /\ ReactiveStart
    /\ TabsIdle
    /\ RefsStart
    /\ DefaultsStart
    /\ ContentStart
    /\ ExplorerStart
    /\ MountIdle
    /\ SyncStart
    /\ MenuStart
    /\ TextsStart
    /\ IdsStart

SpecPrefix == InitPrefix /\ [][NextPrefix]_vars

\* A timer that stays pending fires: the host runs due timers.
SpecPrefixFair == SpecPrefix /\ WF_vars(Timeout)

\* The shadow template mixin: instances of any classes.
InitTemplate ==
    /\ PrefixIdle
    /\ TemplateStart
    /\ ReactiveStart
    /\ TabsIdle
    /\ RefsStart
    /\ DefaultsStart
    /\ ContentStart
    /\ ExplorerStart
    /\ MountIdle
    /\ SyncStart
    /\ MenuStart
    /\ TextsStart
    /\ IdsStart

SpecTemplate == InitTemplate /\ [][NextTemplate]_vars

\* The reactive cycle of one mounted component.
InitReactive ==
    /\ PrefixIdle
    /\ TemplateIdle
    /\ ReactiveStart
    /\ TabsIdle
    /\ RefsStart
    /\ DefaultsStart
    /\ ContentStart
    /\ ExplorerStart
    /\ MountIdle
    /\ SyncStart
    /\ MenuStart
    /\ TextsStart
    /\ IdsStart

SpecReactive == InitReactive /\ [][NextReactive]_vars

\* A TabStripWrapper element and its inner tab strip.
InitTabs ==
    /\ PrefixIdle
    /\ TemplateIdle
    /\ ReactiveStart
    /\ TabsStart
    /\ RefsStart
    /\ DefaultsStart
    /\ ContentStart
    /\ ExplorerStart
    /\ MountIdle
    /\ SyncStart
    /\ MenuStart
    /\ TextsStart
    /\ IdsStart

SpecTabs == InitTabs /\ [][NextTabs]_vars

\* The $ references of two instances whose shadow subtrees change.
InitRefs ==
    /\ PrefixIdle
    /\ TemplateIdle
    /\ ReactiveStart
    /\ TabsIdle
    /\ RefsStart
    /\ DefaultsStart
    /\ ContentStart
    /\ ExplorerStart
    /\ MountIdle
    /\ SyncStart
    /\ MenuStart
    /\ TextsStart
    /\ IdsStart

SpecRefs == InitRefs /\ [][NextRefs]_vars

\* The defaults of a class composed of up to MaxLayers layers.
InitDefaults ==
    /\ PrefixIdle
    /\ TemplateIdle
    /\ ReactiveStart
    /\ TabsIdle
    /\ RefsStart
    /\ DefaultsStart
    /\ ContentStart
    /\ ExplorerStart
    /\ MountIdle
    /\ SyncStart
    /\ MenuStart
    /\ TextsStart
    /\ IdsStart

SpecDefaults == InitDefaults /\ [][NextDefaults]_vars

\* A component with ContentItemsMixin whose content is updated by hand.
InitContent ==
    /\ PrefixIdle
    /\ TemplateIdle
    /\ ReactiveStart
    /\ TabsIdle
    /\ RefsStart
    /\ DefaultsStart
    /\ ContentStart
    /\ ExplorerStart
    /\ MountIdle
    /\ SyncStart
    /\ MenuStart
    /\ TextsStart
    /\ IdsStart

SpecContent == InitContent /\ [][NextContent]_vars

\* A queued microtask is run: the host drains the microtask queue.
SpecContentFair == SpecContent /\ WF_vars(RenderContent)

\* An Explorer whose items and assigned proxies change.
InitExplorer ==
    /\ PrefixIdle
    /\ TemplateIdle
    /\ ReactiveStart
    /\ TabsIdle
    /\ RefsStart
    /\ DefaultsStart
    /\ ContentStart
    /\ ExplorerStart
    /\ MountIdle
    /\ SyncStart
    /\ MenuStart
    /\ TextsStart
    /\ IdsStart

SpecExplorer == InitExplorer /\ [][NextExplorer]_vars

\* refineState from any state record.
InitRefine ==
    /\ PrefixIdle
    /\ TemplateIdle
    /\ ReactiveStart
    /\ TabsIdle
    /\ RefsStart
    /\ DefaultsStart
    /\ ContentStart
    /\ AnyExplorerState
    /\ MountIdle
    /\ SyncStart
    /\ MenuStart
    /\ TextsStart
    /\ IdsStart

SpecRefine == InitRefine /\ [][NextRefine]_vars

\* The mounting of an Explorer.
InitMount ==
    /\ PrefixIdle
    /\ TemplateIdle
    /\ ReactiveStart
    /\ TabsIdle
    /\ RefsStart
    /\ DefaultsStart
    /\ ContentStart
    /\ ExplorerStart
    /\ MountStart
    /\ SyncStart
    /\ MenuStart
    /\ TextsStart
    /\ IdsStart

SpecMount == InitMount /\ [][NextMount]_vars

\* The microtask queue is drained: a queued deferred check runs.
SpecMountFair == SpecMount /\ WF_vars(DeferredCheck)

\* The selection of an Explorer and of its inner elements.
InitSync ==
    /\ PrefixIdle
    /\ TemplateIdle
    /\ ReactiveStart
    /\ TabsIdle
    /\ RefsStart
    /\ DefaultsStart
    /\ ContentStart
    /\ ExplorerStart
    /\ MountIdle
    /\ SyncStart
    /\ MenuStart
    /\ TextsStart
    /\ IdsStart

SpecSync == InitSync /\ [][NextSync]_vars

\* The microtask queue is drained: a queued render runs.
SpecSyncFair == SpecSync /\ WF_vars(RenderExplorer)

\* Menu's itemsForState over the lists a base class may return.
InitMenu ==
    /\ PrefixIdle
    /\ TemplateIdle
    /\ ReactiveStart
    /\ TabsIdle
    /\ RefsStart
    /\ DefaultsStart
    /\ ContentStart
    /\ ExplorerStart
    /\ MountIdle
    /\ SyncStart
    /\ MenuStart
    /\ TextsStart
    /\ IdsStart

SpecMenu == InitMenu /\ [][NextMenu]_vars

\* The texts of a component's items.
InitTexts ==
    /\ PrefixIdle
    /\ TemplateIdle
    /\ ReactiveStart
    /\ TabsIdle
    /\ RefsStart
    /\ DefaultsStart
    /\ ContentStart
    /\ ExplorerStart
    /\ MountIdle
    /\ SyncStart
    /\ MenuStart
    /\ TextsStart
    /\ IdsStart

SpecTexts == InitTexts /\ [][NextTexts]_vars

\* The roles and ids of the items of two TabStripWrappers.
InitIds ==
    /\ PrefixIdle
    /\ TemplateIdle
    /\ ReactiveStart
    /\ TabsIdle
    /\ RefsStart
    /\ DefaultsStart
    /\ ContentStart
    /\ ExplorerStart
    /\ MountIdle
    /\ SyncStart
    /\ MenuStart
    /\ TextsStart
    /\ IdsStart

SpecIds == InitIds /\ [][NextIds]_vars

-----------------------------------------------------------------------------
(* What the prefix mixin is to compute, stated on the items themselves *)

\* Does text t start with prefix p?
StartsWith(t, p) == Len(t) >= Len(p) /\ \A i \in 1..Len(p) : t[i] = p[i]

\* The lowercased text of item i (1-based) of a list of items.
ItemTextOf(its, i) ==
    LET item == its[i]
        raw == IF item.hasAlt /\ item.alt # <<>> THEN item.alt
               ELSE item.textContent
    IN  [k \in 1..Len(raw) |->
            IF raw[k] \in 65..90 THEN raw[k] + 32 ELSE raw[k]]

\* The 0-based index of the first item whose lowercased text starts with p,
\* or -1.
FirstItemWithPrefix(its, p) ==
    LET hits == { i \in 1..Len(its) : StartsWith(ItemTextOf(its, i), p) }
    IN  IF hits = {} THEN -1
        ELSE (CHOOSE i \in hits : \A j \in hits : i <= j) - 1

\* The selection a prefix search with p leaves, given the one before it.
SelectionAfterSearch(its, p, before) ==
    IF p # <<>> /\ FirstItemWithPrefix(its, p) >= 0
    THEN FirstItemWithPrefix(its, p) ELSE before

NoModifier(event) == ~event.ctrlKey /\ ~event.metaKey /\ ~event.altKey

\* The last operation was a keydown of a plain character: no modifier, and
\* not Space, Backspace or Escape.
WasPlainKeydown ==
    /\ last.op = "keydown"
    /\ NoModifier(last.event)
    /\ last.event.keyCode \notin {8, 27, 32}

WasBackspace == last.op = "keydown" /\ last.event.keyCode = 8

\* The lowercased character of the last keydown.
TypedChar ==
    LET c == last.event.keyCode
    IN  << IF c \in 65..90 THEN c + 32 ELSE c >>

Idle == typedPrefix = <<>> /\ prefixTimeout = 0 /\ timers = {}

-----------------------------------------------------------------------------
(* Claims about the prefix mixin *)

\* C2: after a keydown with no modifier that is not Space, Backspace or
\* Escape, the typed prefix is the old prefix followed by the lowercased
\* character, and selectedIndex is the index of the first item whose
\* lowercased text starts with the new prefix; without a match selectedIndex
\* is unchanged and the new prefix is retained.
C2_PlainCharacter ==
    WasPlainKeydown =>
        /\ typedPrefix = last.before.typedPrefix \o TypedChar
        /\ selectedIndex =
             SelectionAfterSearch(items, typedPrefix, last.before.selectedIndex)

\* "b" then "b" on Aa, Ab, Ba, Bb: prefix "bb" selects index 3.
C2_Witness ==
    /\ WasPlainKeydown
    /\ items = Fruit
    /\ last.before.typedPrefix = <<98>>
    /\ last.before.selectedIndex = 2
    /\ typedPrefix = <<98, 98>>
    /\ selectedIndex = 3

\* C3: a pending prefix timeout leads to the typed prefix being empty with no
\* timeout pending; and a plain character typed once the timeout has cleared
\* the prefix starts a new prefix made of that character alone.
C3_TimeoutClearsPrefix ==
    /\ (prefixTimeout # 0) ~> Idle
    /\ [](WasPlainKeydown /\ last.before.prefixTimeout = 0
            => typedPrefix = TypedChar)

\* The timeout has fired on an accumulated prefix and left the mixin idle.
C3_Witness ==
    /\ last.op = "timeout"
    /\ last.before.typedPrefix = <<98, 98>>
    /\ last.before.prefixTimeout = last.index
    /\ Idle

\* C4: an assignment of selectedIndex by anyone but selectItemWithTextPrefix
\* empties the typed prefix and cancels the pending timeout at once; the
\* assignment made by selectItemWithTextPrefix leaves the prefix and the
\* timeout alone; and the "setting selection" flag is false whenever
\* selectItemWithTextPrefix has returned.
C4_ExternalSelectionResets ==
    /\ last.op = "selectedIndex" =>
          Idle /\ selectedIndex = last.index
    /\ last.op = "select" /\ last.result =>
          /\ typedPrefix = last.before.typedPrefix
          /\ prefixTimeout = last.before.prefixTimeout
          /\ (prefixTimeout # 0 => timers = {prefixTimeout})
    /\ WasPlainKeydown /\ selectedIndex # last.before.selectedIndex =>
          typedPrefix # <<>>
    /\ settingSelection = FALSE

\* Someone sets selectedIndex while the prefix "bb" is accumulated.
C4_Witness ==
    /\ last.op = "selectedIndex"
    /\ last.before.typedPrefix = <<98, 98>>
    /\ last.before.prefixTimeout # 0
    /\ last.index = 1
    /\ selectedIndex = 1
    /\ Idle

\* C5: a Backspace keydown removes exactly the last character of the typed
\* prefix (an empty prefix stays empty), searches again with the shortened
\* prefix (a non-empty shortened prefix moves the selection to the first
\* item starting with it; an empty one selects nothing), installs a fresh
\* timeout, and keeps the remaining characters.
C5_Backspace ==
    WasBackspace =>
        /\ typedPrefix =
             IF last.before.typedPrefix = <<>> THEN <<>>
             ELSE SubSeq(last.before.typedPrefix, 1,
                         Len(last.before.typedPrefix) - 1)
        /\ selectedIndex =
             SelectionAfterSearch(items, typedPrefix, last.before.selectedIndex)
        /\ prefixTimeout # 0
        /\ prefixTimeout # last.before.prefixTimeout
        /\ timers = {prefixTimeout}
        /\ last.result = TRUE

\* On Aa, Ab, Ba, Bb the prefix "bb" had selected index 3; Backspace leaves
\* "b" and moves the selection to index 2.
C5_Witness ==
    /\ WasBackspace
    /\ items = Fruit
    /\ last.before.typedPrefix = <<98, 98>>
    /\ last.before.selectedIndex = 3
    /\ typedPrefix = <<98>>
    /\ selectedIndex = 2

\* C6 as stated: a timeout is pending if and only if the prefix is
\* non-empty.
C6_TwoStates == (prefixTimeout # 0) <=> (typedPrefix # <<>>)

\* C6 as amended: between events a timeout is pending whenever the typed
\* prefix is non-empty, the pending timer is the one the element holds, and
\* without a pending timeout the prefix is empty.
C6_PrefixImpliesTimeout ==
    /\ typedPrefix # <<>> => prefixTimeout # 0
    /\ timers = IF prefixTimeout # 0 THEN {prefixTimeout} ELSE {}

\* Backspace has emptied the prefix and left a timeout pending.
C6_Witness ==
    /\ WasBackspace
    /\ last.before.typedPrefix = <<98>>
    /\ typedPrefix = <<>>
    /\ prefixTimeout # 0

\* C7: after itemsChanged the typed prefix is empty, no timeout is pending
\* and the cache is discarded; texts that are cached are the lowercased
\* texts of the current items, and every search selects by the current
\* items.
C7_ItemsChangedInvalidates ==
    /\ last.op = "itemsChanged" => Idle /\ itemTextContents.isNull
    /\ ~itemTextContents.isNull =>
          itemTextContents.texts =
             [i \in 1..Len(items) |-> ItemTextOf(items, i)]
    /\ last.op = "select" =>
          selectedIndex =
             SelectionAfterSearch(items, last.prefix, last.before.selectedIndex)

\* The items changed while texts were cached and a prefix was accumulated.
C7_Witness ==
    /\ last.op = "itemsChanged"
    /\ last.before.cached
    /\ last.before.typedPrefix # <<>>
    /\ items = WithAlt
    /\ itemTextContents.isNull

\* C8: selectItemWithTextPrefix is a function of the current item texts and
\* the prefix: it returns whether some item's lowercased text starts with
\* the (non-empty) prefix, and selects the first such item, whatever
\* preceded the call.
C8_SelectIsPure ==
    last.op = "select" =>
        /\ last.result =
             (last.prefix # <<>> /\ FirstItemWithPrefix(items, last.prefix) >= 0)
        /\ last.result => selectedIndex = FirstItemWithPrefix(items, last.prefix)
        /\ ~last.result => selectedIndex = last.before.selectedIndex

\* A call on Bb, Aa with prefix "a", with texts cached by an earlier search
\* and another item selected.
C8_Witness ==
    /\ last.op = "select"
    /\ last.prefix = <<97>>
    /\ items = << Fruit[4], Fruit[1] >>
    /\ last.before.cached
    /\ last.before.selectedIndex = 0
    /\ last.result
    /\ selectedIndex = 1

-----------------------------------------------------------------------------
(* Claims about the reactive cycle and the shadow template mixin *)

\* C1: the setState calls of one synchronous turn that change the state are
\* followed by exactly one render, at the microtask boundary after the turn;
\* it observes the merged final state, and nothing is rendered while the
\* turn is still running.
C1_OneRenderPerTurn ==
    /\ rxRenders <= 1
    /\ rxPhase = "sync" => rxRenders = 0
    /\ rxRenders = 1 => rxRendered = rxState
    /\ rxPhase = "drain" /\ rxMicrotasks = 0 =>
          /\ rxRenders = IF rxTurnChanges >= 1 THEN 1 ELSE 0
          /\ rxRendered = rxState
          /\ rxChanged = {}

\* Three state-changing setState calls in one turn, one render afterwards.
C1_Witness ==
    /\ rxPhase = "drain"
    /\ rxMicrotasks = 0
    /\ rxTurnChanges = 3
    /\ rxRenders = 1
    /\ rxState = [position |-> "bottom", selected |-> TRUE]
    /\ rxRendered = rxState

\* C9: an instance's shadow root is attached, and the template cloned into
\* it, at most once; a render of an instance that has a shadow root changes
\* nothing of the instance and does not ask for the template.
C9_ShadowAttachedOnce ==
    /\ \A i \in Instances :
          /\ inst[i].attachCount <= 1
          /\ inst[i].cloneCount = inst[i].attachCount
          /\ inst[i].shadowRoot.attached <=> inst[i].attachCount = 1
    /\ lastT.op = "render" /\ lastT.before.shadowRoot.attached =>
          /\ inst[lastT.inst] = lastT.before
          /\ ~lastT.evaluated

\* An instance with a shadow root has been rendered again.
C9_Witness ==
    /\ lastT.op = "render"
    /\ lastT.before.shadowRoot.attached
    /\ inst[lastT.inst].attachCount = 1

\* C10 as stated: over the first renders of the instances of a class that do
\* not carry the dynamic-template flag, the template hook is evaluated
\* exactly once (so for one instance only), later instances get the cached
\* template, and an instance with the flag gets a freshly computed template.
C10_HookEvaluatedOnce ==
    /\ \A c \in Classes :
          Cardinality({ hookCalls[c][k] : k \in 1..Len(hookCalls[c]) }) <= 1
    /\ lastT.op = "render" /\ ~lastT.before.shadowRoot.attached
          /\ ~lastT.before.hasDynamicTemplate =>
          /\ Len(hookCalls[lastT.before.cls]) >= 1
          /\ ~lastT.evaluated =>
                lastT.template = classTemplateMap[lastT.before.cls]
    /\ lastT.op = "render" /\ ~lastT.before.shadowRoot.attached
          /\ lastT.before.hasDynamicTemplate =>
          /\ lastT.evaluated
          /\ lastT.template.id = templateCount

\* C11 as stated: a render for which the template hook returned a value
\* that is neither empty nor a template element completes normally: no
\* exception leaves render, and the instance is left without a shadow root.
C11_InvalidTemplateTolerated ==
    lastT.op = "render" /\ lastT.evaluated /\ Truthy(lastT.template)
        /\ lastT.template.kind # "template" =>
        /\ ~lastT.threw
        /\ ~inst[lastT.inst].shadowRoot.attached

-----------------------------------------------------------------------------
(* Claims about TabStripWrapper *)

\* C12 as stated: setting tabPosition on a wrapper without a shadow root
\* does not throw, logs a warning and changes nothing.
C12_NoShadowRootWarns ==
    lastTw.op = "tabPosition" /\ ~lastTw.before.shadowRoot =>
        /\ ~lastTw.threw
        /\ lastTw.warned
        /\ TwEl = lastTw.before

-----------------------------------------------------------------------------
(* Claims about the $ references *)

\* The element that has the id now in the instance's own shadow subtree;
\* null without a shadow root or without such an element.
LiveElement(i, name) ==
    IF refShadow[i].attached /\ name \in ShadowIds
    THEN refShadow[i].content[name]
    ELSE NullElement

\* C13: a read of $.<id> returns the element that has the id now in the
\* instance's own shadow subtree, or null when there is no shadow subtree or
\* no such element; it is never an element that was removed or replaced, nor
\* an element of another instance; and the proxy keeps nothing.
C13_LiveLookup ==
    /\ lastRef.op = "lookup" /\ lastRef.property.type = "string" =>
          lastRef.value = LiveElement(lastRef.inst, lastRef.property.name)
    /\ lastRef.op = "lookup" /\ lastRef.value # NullElement =>
          /\ \E n \in ShadowIds :
                refShadow[lastRef.inst].content[n] = lastRef.value
          /\ \A j \in RefInstances \ {lastRef.inst}, n \in ShadowIds :
                refShadow[j].content[n] # lastRef.value
    /\ \A i \in RefInstances : refProxy[i].target = <<>>

\* The id foo is read on an instance after its element was replaced, while
\* the other instance has a shadow subtree too: the read returns the newest
\* element (only a replacement gives foo the newest identity).
C13_Witness ==
    /\ lastRef.op = "lookup"
    /\ lastRef.property = [type |-> "string", name |-> "foo"]
    /\ \A i \in RefInstances : refShadow[i].attached
    /\ lastRef.value = refNodes

-----------------------------------------------------------------------------
(* Claims about defaultState *)

\* The layers of the chain that contribute a default for a field.
Contributors(f) ==
    { k \in 1..Len(dfChain) : f \in DOMAIN Contribution(dfChain[k]) }

\* C14: the final defaults hold, for every field some layer contributes, the
\* value contributed by the outermost (last-applied) of those layers; every
\* field an inner layer contributes is present; nothing else is.
C14_OutermostWins ==
    /\ DOMAIN dfDefaults =
          UNION { DOMAIN Contribution(dfChain[k]) : k \in 1..Len(dfChain) }
    /\ \A f \in DOMAIN dfDefaults :
          LET outermost == CHOOSE k \in Contributors(f) :
                              \A j \in Contributors(f) : j <= k
          IN  dfDefaults[f] = Contribution(dfChain[outermost])[f]

\* Two layers of the chain contribute different roles, and the inner one
\* contributes another field as well.
C14_Witness ==
    \E i, k \in Contributors("role") :
        /\ i < k
        /\ Contribution(dfChain[i]).role # Contribution(dfChain[k]).role
        /\ dfDefaults.role = Contribution(dfChain[k]).role
        /\ \E f \in DOMAIN Contribution(dfChain[i]) \ {"role"} :
              f \in DOMAIN dfDefaults

-----------------------------------------------------------------------------
(* Further claims about the reactive cycle *)

\* The partial state of the last setState names only values that the state
\* already had.
NothingDiffers ==
    \A f \in DOMAIN lastRx.partial : lastRx.partial[f] = lastRx.before.state[f]

\* C15: a setState whose partial state gives every named field the value it
\* already has leaves the state record as it was and queues no render; a
\* setState in which a field differs takes the partial's values, keeps the
\* other fields and queues a render.
C15_SetStateNoOpOrRender ==
    lastRx.op = "setState" =>
        /\ NothingDiffers =>
              /\ rxState = lastRx.before.state
              /\ rxMicrotasks = lastRx.before.microtasks
        /\ ~NothingDiffers =>
              /\ \A f \in Fields :
                    rxState[f] = IF f \in DOMAIN lastRx.partial
                                 THEN lastRx.partial[f]
                                 ELSE lastRx.before.state[f]
              /\ rxMicrotasks = lastRx.before.microtasks + 1

\* A setState that names both fields, each with the value it has, while a
\* render is already queued.
C15_Witness ==
    /\ lastRx.op = "setState"
    /\ DOMAIN lastRx.partial = Fields
    /\ NothingDiffers
    /\ rxMicrotasks > 0

\* C16: the change flags a render is called with mark a field exactly when
\* its value differs from the value it had at the last completed render.
C16_FlagsAreTheDifference ==
    lastRx.op = "microtask" /\ lastRx.changed =>
        \A f \in Fields :
            rxFlags[f] <=> rxState[f] # lastRx.before.rendered[f]

\* A render after a turn of three state-changing setState calls at the end
\* of which one field differs from the last render and the other, though
\* written to, does not.
C16_Witness ==
    /\ lastRx.op = "microtask" /\ lastRx.changed
    /\ rxTurnChanges = 3
    /\ rxFlags = [position |-> TRUE, selected |-> FALSE]
    /\ rxState.selected = lastRx.before.rendered.selected

-----------------------------------------------------------------------------
(* Claims about ContentItemsMixin *)

\* Is s a subsequence of t that keeps t's order?
RECURSIVE IsOrderedPick(_, _)
IsOrderedPick(s, t) ==
    IF s = <<>> THEN TRUE
    ELSE IF t = <<>> THEN FALSE
    ELSE IF Head(s) = Head(t) THEN IsOrderedPick(Tail(s), Tail(t))
    ELSE IsOrderedPick(s, Tail(t))

\* C17: once updateContent's setState has returned, the content is the
\* children copied, and the items are exactly the content's elements that
\* are not auxiliary (style, script, ...), in content order, whether or not
\* the element is in the document and before any render has run.  At every
\* moment the items are those of the content.
C17_ItemsAreSubstantiveContent ==
    /\ lastCi.op = "updateContent" =>
          /\ ciContent = List(lastCi.children)
          /\ ~ciItems.isNull
    /\ ciItems.isNull <=> ciContent.isNull
    /\ ~ciItems.isNull =>
          /\ \A k \in 1..Len(ciItems.elems) :
                ciItems.elems[k].tag \notin {"style", "script"}
          /\ Len(ciItems.elems) =
                Cardinality({ k \in 1..Len(ciContent.elems) :
                                ciContent.elems[k].tag = "div" })
          /\ IsOrderedPick(ciItems.elems, ciContent.elems)

\* The first test: a style element and two divs are copied into the content
\* of an element that is not in the document, and no render has run.
C17_Witness ==
    /\ lastCi.op = "updateContent"
    /\ ~ciConnected /\ ~ciRenderQueued
    /\ Len(ciContent.elems) = 3
    /\ ciContent.elems[1].tag = "style"
    /\ ciItems.elems = << Child("div", "1"), Child("div", "2") >>

\* C18: when a content update on a connected component with
\* raiseChangeEvents set changes the items, an items-changed event is
\* eventually raised.
C18_ItemsChangedRaised ==
    ciOwed ~> (lastCi.op = "render" /\ lastCi.raised)

\* An event is due after such an update, with raiseChangeEvents back to
\* false before the render has run.
C18_Witness ==
    /\ ciOwed
    /\ ciRenderQueued
    /\ ~ciRaiseChangeEvents

-----------------------------------------------------------------------------
(* Claims about Explorer *)

\* The number of items of a state (none without an items array).
ItemCount(state) == IF state.items.id > 0 THEN Len(state.items.elems) ELSE 0

\* C19: in every settled state, assigned proxies and default proxies are
\* not both non-empty; with an element assigned to the proxy slot, proxies
\* is the assigned collection; otherwise proxies is the default proxies, one
\* per item, each made with the proxy role.
C19_ProxiesAssignedOrDefault ==
    exSettled =>
        /\ ~(Len(exState.assignedProxies) > 0 /\ Len(exState.defaultProxies) > 0)
        /\ Len(exState.assignedProxies) > 0 =>
              proxies(exState) = exState.assignedProxies
        /\ Len(exState.assignedProxies) = 0 =>
              /\ proxies(exState) = exState.defaultProxies
              /\ Len(proxies(exState)) = ItemCount(exState)
              /\ \A k \in 1..Len(proxies(exState)) :
                    proxies(exState)[k] = [kind |-> "default", tag |-> "div"]

\* The last element is taken out of the proxy slot of an Explorer with two
\* items: the default proxies are back.
C19_Witness ==
    /\ exSettled
    /\ lastEx.op = "assignedProxies"
    /\ Len(exState.assignedProxies) = 0
    /\ Len(proxies(exState)) = 2
    /\ lastEx.passes = 2

\* C20: from any state, applying refineState until it reports settled ends
\* within two passes, of which at most the first changes the state: the
\* pass after a state-changing pass reports settled and changes nothing.
C20_RefineSettlesInTwoPasses ==
    /\ lastEx.op # "init" => exSettled /\ lastEx.passes <= 2
    /\ LET first == refineState(lastEx.before)
           second == refineState(first.state)
       IN  /\ ~first.result => second.result /\ second.state = first.state
           /\ first.result => first.state = lastEx.before
           /\ lastEx.op # "init" =>
                 exState = first.state
                 /\ lastEx.passes = IF first.result THEN 1 ELSE 2

\* A state with both assigned and default proxies, and items other than
\* those the default proxies were made for, has been refined in two passes.
C20_Witness ==
    /\ lastEx.op = "refine"
    /\ Len(lastEx.before.assignedProxies) > 0
    /\ Len(lastEx.before.defaultProxies) > 0
    /\ lastEx.before.items.id # lastEx.before.itemsForDefaultProxies.id
    /\ lastEx.passes = 2
    /\ exSettled

-----------------------------------------------------------------------------
(* Further claims about the prefix mixin *)

WasEscape == last.op = "keydown" /\ last.event.keyCode = 27

\* C21: an Escape keydown, with or without a modifier, is reported as
\* handled, leaves the mixin idle (typed prefix empty, no timeout pending,
\* the pending timer cancelled) and leaves the selection as it was.
C21_EscapeResets ==
    WasEscape =>
        /\ last.result = TRUE
        /\ Idle
        /\ selectedIndex = last.before.selectedIndex

\* Escape is pressed while the prefix "bb" is accumulated, a timeout is
\* pending and an item is selected.
C21_Witness ==
    /\ WasEscape
    /\ last.before.typedPrefix = <<98, 98>>
    /\ last.before.prefixTimeout # 0
    /\ last.before.selectedIndex = 3
    /\ selectedIndex = 3
    /\ Idle

WasTyping == WasBackspace \/ WasPlainKeydown

C23_NonPrintableIgnored ==
    last.op = "keydown" /\ last.event.keyCode = 37 /\ NoModifier(last.event) =>
        /\ typedPrefix = last.before.typedPrefix
        /\ selectedIndex = last.before.selectedIndex
        /\ prefixTimeout = last.before.prefixTimeout

\* The text of an item by the claim's rule: the alt attribute whenever the
\* item has one.
AltWhenPresent(item) == IF item.hasAlt THEN item.alt ELSE item.textContent

\* The text of an item by the amended rule: a non-empty alt attribute, else
\* the text content.
AltWhenNonEmpty(item) ==
    IF item.hasAlt /\ item.alt # <<>> THEN item.alt ELSE item.textContent

LowerCased(t) == [k \in 1..Len(t) |-> IF t[k] \in 65..90 THEN t[k] + 32 ELSE t[k]]

\* C24 as stated: the text of an item, in the exposed texts and (lowercased)
\* in the texts cached for prefix matching, is its alt attribute whenever it
\* has one, and its text content otherwise.
C24_AltWheneverPresent ==
    /\ getTextsFromItems(items) = [i \in 1..Len(items) |-> AltWhenPresent(items[i])]
    /\ ~itemTextContents.isNull =>
          itemTextContents.texts =
             [i \in 1..Len(items) |-> LowerCased(AltWhenPresent(items[i]))]

\* C24 as amended: the text of an item is its alt attribute when it has a
\* non-empty one, and its text content otherwise (no alt attribute, or an
\* empty one); these are the exposed texts, their lowercased forms are the
\* texts cached for matching, and an item a prefix search selects is one
\* whose such text starts with the prefix.
C24_NonEmptyAltElseText ==
    /\ getTextsFromItems(items) = [i \in 1..Len(items) |-> AltWhenNonEmpty(items[i])]
    /\ ~itemTextContents.isNull =>
          itemTextContents.texts =
             [i \in 1..Len(items) |-> LowerCased(AltWhenNonEmpty(items[i]))]
    /\ (last.op = "select" /\ last.result) \/ 
       (WasPlainKeydown /\ selectedIndex # last.before.selectedIndex) =>
          /\ selectedIndex \in 0..(Len(items) - 1)
          /\ StartsWith(LowerCased(AltWhenNonEmpty(items[selectedIndex + 1])),
                        IF last.op = "select" THEN last.prefix ELSE typedPrefix)

\* "b" then "a" typed on the list whose second item has an empty alt and the
\* text "ba": the search selects that item by its text content, while the
\* first item is cached by its alt "Bb".
C24_Witness ==
    /\ WasPlainKeydown
    /\ items = WithAlt
    /\ typedPrefix = <<98, 97>>
    /\ selectedIndex = 1
    /\ ~itemTextContents.isNull
    /\ itemTextContents.texts[1] = <<98, 98>>
    /\ itemTextContents.texts[2] = <<98, 97>>

\* C26: keydown returns true for Backspace and for Escape without calling
\* the base class's keydown; for every other key it calls the base class's
\* keydown exactly once and returns its result, so a plain character is
\* reported handled only when the base class reports it handled.
C26_HandledOnlyByBackspaceEscape ==
    last.op = "keydown" =>
        IF last.event.keyCode \in {8, 27}
        THEN last.result = TRUE /\ last.baseCalls = 0
        ELSE last.baseCalls = 1 /\ last.result = last.event.baseResult

\* The plain character "b" extended the prefix and moved the selection, the
\* base class reported the key unhandled, and so did the mixin.
C26_Witness ==
    /\ WasPlainKeydown
    /\ last.event.keyCode = 66
    /\ last.event.baseResult = FALSE
    /\ last.baseCalls = 1
    /\ last.result = FALSE
    /\ typedPrefix = <<98>>
    /\ selectedIndex # last.before.selectedIndex

-----------------------------------------------------------------------------
(* Further claims about the shadow template mixin *)

\* The last operation was the first render of an instance that carries the
\* dynamic-template flag.
WasDynamicRender ==
    /\ lastT.op = "render"
    /\ lastT.before.hasDynamicTemplate
    /\ ~lastT.before.shadowRoot.attached

\* C30: the first render of an instance with the dynamic-template flag does
\* not take its template from the class's cache (the hook is evaluated and
\* the template is a new one) and leaves the cache as it was; the template
\* is in the cache of no class and in the shadow root of no other
\* instance; and at any time two instances share a template only if it is
\* the cached template of their class.
C30_DynamicBypassesCache ==
    /\ WasDynamicRender =>
          /\ lastT.evaluated
          /\ classTemplateMap = lastT.cache
          /\ Truthy(lastT.template) =>
                /\ lastT.template.id = templateCount
                /\ \A c \in Classes : classTemplateMap[c] # lastT.template
                /\ \A j \in Instances \ {lastT.inst} :
                      inst[j].shadowRoot.attached =>
                         inst[j].shadowRoot.from # lastT.template.id
    /\ \A i, j \in Instances :
          /\ i # j
          /\ inst[i].shadowRoot.attached
          /\ inst[j].shadowRoot.attached
          /\ inst[i].shadowRoot.from = inst[j].shadowRoot.from
          => /\ inst[i].cls = inst[j].cls
             /\ classTemplateMap[inst[i].cls].kind = "template"
             /\ classTemplateMap[inst[i].cls].id = inst[i].shadowRoot.from

\* An Explorer with the flag is rendered for the first time when the class
\* has a cached template, which another instance uses; it gets a template
\* of its own and the cached one stays.
C30_Witness ==
    /\ WasDynamicRender
    /\ lastT.before.cls = "Explorer"
    /\ lastT.cache["Explorer"].kind = "template"
    /\ classTemplateMap = lastT.cache
    /\ inst[lastT.inst].shadowRoot.attached
    /\ inst[lastT.inst].shadowRoot.from # lastT.cache["Explorer"].id
    /\ \E j \in Instances \ {lastT.inst} :
          /\ inst[j].shadowRoot.attached
          /\ inst[j].shadowRoot.from = lastT.cache["Explorer"].id

-----------------------------------------------------------------------------
(* Further claims about TabStripWrapper *)

\* C25: after tabAlign or tabPosition is set to v on a wrapper with a shadow
\* root, reading the property returns v, the host's tab-align /
\* tab-position attribute is v, and so the attribute and the inner tab
\* strip's value agree.
C25_ReflectedRoundTrip ==
    /\ lastTw.op = "tabAlign" /\ lastTw.before.shadowRoot =>
          /\ ~lastTw.threw
          /\ ~getTabAlign(TwEl).threw
          /\ getTabAlign(TwEl).value = lastTw.value
          /\ twAttributes.tabAlign = lastTw.value
          /\ twAttributes.tabAlign = twStrip.tabAlign
    /\ lastTw.op = "tabPosition" /\ lastTw.before.shadowRoot =>
          /\ ~lastTw.threw
          /\ ~getTabPosition(TwEl).threw
          /\ getTabPosition(TwEl).value = lastTw.value
          /\ twAttributes.tabPosition = lastTw.value
          /\ twAttributes.tabPosition = twStrip.tabPosition

\* tabAlign is set to "end" on a wrapper whose tab strip had "center" and
\* whose host had no tab-align attribute.
C25_Witness ==
    /\ lastTw.op = "tabAlign"
    /\ lastTw.value = "end"
    /\ lastTw.before.shadowRoot
    /\ lastTw.before.strip.tabAlign = "center"
    /\ lastTw.before.attributes.tabAlign = NoAttribute
    /\ twStrip.tabAlign = "end"
    /\ twAttributes.tabAlign = "end"

\* The last operation was an assignment of the wrapper's selectedIndex, or a
\* selection in the tab strip with its event, on a wrapper whose shadow root
\* holds the tab strip.
WasSelection ==
    /\ lastTw.op \in {"selectedIndex", "stripSelects"}
    /\ lastTw.before.shadowRoot

\* C28 as stated: after an assignment of the wrapper's selectedIndex or an
\* event of the tab strip, the wrapper's selectedIndex equals the tab
\* strip's, and the exchange took finitely many setter calls.
C28_WrapperFollowsStrip ==
    WasSelection =>
        /\ getSelectedIndex(TwEl) = twStrip.selectedIndex
        /\ ~lastTw.exhausted

\* C28 as amended: with a base class that defines selectedIndex, the
\* wrapper's selectedIndex and the tab strip's both equal the value
\* assigned or selected; whatever the base class, the tab strip has that
\* value and the exchange ends within two setter calls, whether the tab
\* strip raises an event on no assignment, on a changing one or on every
\* one; and no other operation on the wrapper changes either index.
C28_WrapperWithBaseFollowsStrip ==
    /\ WasSelection =>
          /\ ~lastTw.threw
          /\ ~lastTw.exhausted
          /\ lastTw.rounds <= 2
          /\ twStrip.selectedIndex = lastTw.value
          /\ twBase => getSelectedIndex(TwEl) = twStrip.selectedIndex
    /\ lastTw.op \in {"tabAlign", "tabPosition", "connectedCallback"} =>
          /\ twSelectedIndex = lastTw.before.selectedIndex
          /\ twStrip.selectedIndex = lastTw.before.strip.selectedIndex

\* The wrapper and its tab strip had index 0; the user picks tab 1 in the
\* tab strip; the listener's assignment finds the strip at 1 already, and
\* both end at 1 after one setter call.
C28_Witness ==
    /\ lastTw.op = "stripSelects"
    /\ twBase
    /\ lastTw.before.selectedIndex = 0
    /\ lastTw.before.strip.selectedIndex = 0
    /\ lastTw.value = 1
    /\ lastTw.rounds = 1
    /\ twSelectedIndex = 1
    /\ twStrip.selectedIndex = 1

-----------------------------------------------------------------------------
(* Claims about the mounting of an Explorer *)

\* C29: once an Explorer is mounted its assigned proxies come to be read
\* from the proxy slot, whether a slotchange is dispatched before the
\* deferred check, after it or never; the deferred check reads the slot
\* exactly when no slotchange listener has run before it; the check runs at
\* most once; and when it has run, the slot has been read at least once.
C29_ProxiesReadAfterMount ==
    /\ mtMounted ~> (mtReads >= 1)
    /\ [](lastMt.op = "deferredCheck" =>
            /\ mtReads = lastMt.before.reads
                           + (IF lastMt.before.slotchangeFired THEN 0 ELSE 1)
            /\ ~lastMt.before.slotchangeFired => mtAssignedProxies = mtSlot
            /\ lastMt.before.slotchangeFired =>
                  mtAssignedProxies = lastMt.before.assignedProxies)
    /\ [](mtChecks <= 1)
    /\ [](mtMounted /\ mtMicrotasks = 0 =>
            mtChecks = 1 /\ mtReads >= 1 /\ mtSlotchangeFired)

\* No slotchange was ever dispatched: the deferred check finds the flag
\* unset and reads the two proxies assigned to the slot.
C29_Witness ==
    /\ lastMt.op = "deferredCheck"
    /\ ~lastMt.before.slotchangeFired
    /\ lastMt.before.reads = 0
    /\ mtReads = 1
    /\ Len(mtSlot) = 2
    /\ mtAssignedProxies = mtSlot

-----------------------------------------------------------------------------
(* Claims about the selection of an Explorer *)

\* All three selections agree.
SelectionsAgree == syProxyList = sySelectedIndex /\ syStage = sySelectedIndex

\* C27: when the stage or the proxy list raises selected-index-changed with
\* index i, the Explorer's selectedIndex is i once the handler has returned,
\* and a change queues a render that is to raise the Explorer's own change
\* event; a render assigns the Explorer's selectedIndex to the proxy list
\* and to the stage, so that all three agree, and a queued render comes to
\* run; raiseChangeEvents is false whenever the handler has returned; and
\* the handler runs only for selections made in the inner elements, never
\* for the assignments of its own render.
C27_SelectionSync ==
    /\ [](lastSy.op = "selectedIndexChanged" =>
            /\ sySelectedIndex = lastSy.index
            /\ syHandled = lastSy.before.handled + 1
            /\ lastSy.before.selectedIndex # lastSy.index =>
                  syRenderQueued /\ syRaiseInNextRender)
    /\ [](lastSy.op = "render" =>
            /\ sySelectedIndex = lastSy.before.selectedIndex
            /\ SelectionsAgree
            /\ syHandled = lastSy.before.handled
            /\ ~syRenderQueued)
    /\ [](~syRaiseChangeEvents)
    /\ [](~syRenderQueued => SelectionsAgree)
    /\ (lastSy.op = "selectedIndexChanged" ~> (SelectionsAgree /\ ~syRenderQueued))

\* The user selected item 1 in the proxy list of an Explorer with nothing
\* selected; the handler made 1 the Explorer's selectedIndex, and the render
\* has assigned 1 to the stage and raised the Explorer's change event.
C27_Witness ==
    /\ lastSy.op = "render"
    /\ lastSy.before.proxyList = 1
    /\ lastSy.before.stage = -1
    /\ lastSy.before.selectedIndex = 1
    /\ lastSy.before.raiseInNextRender
    /\ syHandled = 1
    /\ syEvents = 1
    /\ syStage = 1
    /\ syProxyList = 1
    /\ sySelectedIndex = 1

-----------------------------------------------------------------------------
(* Claims about keys the prefix mixin passes over *)

\* The prefix, the selection and the timeout are as before the last
\* operation.
PrefixStateUnchanged ==
    /\ typedPrefix = last.before.typedPrefix
    /\ selectedIndex = last.before.selectedIndex
    /\ prefixTimeout = last.before.prefixTimeout
    /\ timers = IF prefixTimeout # 0 THEN {prefixTimeout} ELSE {}

\* C36 as stated: a keydown with ctrl, meta or alt held, or a Space keydown,
\* changes neither the typed prefix, nor the selection, nor the pending
\* timeout.
C36_ModifierOrSpaceIgnored ==
    last.op = "keydown" /\ (~NoModifier(last.event) \/ last.event.keyCode = 32)
        => PrefixStateUnchanged

\* C36 as amended: a keydown of a key other than Backspace and Escape with
\* ctrl, meta or alt held, or a Space keydown, changes neither the typed
\* prefix, nor the selection, nor the pending timeout.
C36_ModifierOrSpaceIgnoredButBackspaceEscape ==
    /\ last.op = "keydown"
    /\ last.event.keyCode \notin {8, 27}
    /\ ~NoModifier(last.event) \/ last.event.keyCode = 32
    => PrefixStateUnchanged

\* Ctrl+A while the prefix "b" is accumulated and its timeout is pending.
C36_Witness ==
    /\ last.op = "keydown"
    /\ last.event.keyCode = 65
    /\ last.event.ctrlKey
    /\ last.before.typedPrefix = <<98>>
    /\ last.before.prefixTimeout # 0
    /\ typedPrefix = <<98>>
    /\ prefixTimeout = last.before.prefixTimeout

\* C35: at most one prefix timeout is pending, and it is the one whose
\* handle the element holds; an operation that installs a timeout leaves
\* the previous one cancelled; and a timeout that fires is the one the
\* element held, never one that was cancelled or replaced.
C35_OnePendingTimeout ==
    /\ Cardinality(timers) <= 1
    /\ timers \subseteq {prefixTimeout}
    /\ prefixTimeout # last.before.prefixTimeout =>
          last.before.prefixTimeout \notin timers
    /\ last.op = "timeout" =>
          /\ last.index # 0
          /\ last.index = last.before.prefixTimeout

\* Two keys were typed, the second replacing the timer of the first; the
\* timer that fires and clears the prefix "bb" is the second one.
C35_Witness ==
    /\ last.op = "timeout"
    /\ last.index = 2
    /\ last.before.prefixTimeout = 2
    /\ last.before.typedPrefix = <<98, 98>>
    /\ typedPrefix = <<>>
    /\ timers = {}

-----------------------------------------------------------------------------
(* Claims about the order of the tab strip and the pages *)

\* Node a is the child right before node b.
ImmediatelyPrecedes(children, a, b) ==
    \E i \in 1..(Len(children) - 1) : children[i] = a /\ children[i + 1] = b

\* C33: after tabPosition is set on a wrapper with a shadow root, the tab
\* strip is the child right before the pages element for top and left, and
\* the pages element is right before the tab strip for bottom and right; no
\* child is lost or added; and setting the position the host attribute
\* already reflects moves no node.
C33_StripAndPagesOrdered ==
    lastTw.op = "tabPosition" /\ lastTw.before.shadowRoot =>
        /\ ~lastTw.threw
        /\ IF lastTw.value \in {"top", "left"}
           THEN ImmediatelyPrecedes(twChildren, "tabStrip", "pages")
           ELSE ImmediatelyPrecedes(twChildren, "pages", "tabStrip")
        /\ Len(twChildren) = Len(TemplateNodes)
        /\ { twChildren[i] : i \in 1..Len(twChildren) }
              = { TemplateNodes[i] : i \in 1..Len(TemplateNodes) }
        /\ lastTw.before.attributes.tabPosition = lastTw.value =>
              ~lastTw.moved /\ twChildren = lastTw.before.children

\* tabPosition "bottom" on a wrapper whose tab strip stood right before the
\* pages: the pages element is moved in front of the tab strip.
C33_Witness ==
    /\ lastTw.op = "tabPosition"
    /\ lastTw.value = "bottom"
    /\ lastTw.before.shadowRoot
    /\ ImmediatelyPrecedes(lastTw.before.children, "tabStrip", "pages")
    /\ lastTw.moved
    /\ ImmediatelyPrecedes(twChildren, "pages", "tabStrip")

-----------------------------------------------------------------------------
(* Claims about Menu *)

\* The number of items of a list that are not disabled.
EnabledCount(elems) ==
    Cardinality({ i \in 1..Len(elems) : ~elems[i].disabled })

\* C34: itemsForState returns a list, never null; with no list from the base
\* class it is empty; otherwise it holds the base class's items that are
\* not disabled, all of them and nothing else, in their relative order.
C34_EnabledItemsInOrder ==
    mnCalled =>
        /\ ~mnItems.isNull
        /\ mnBase.isNull => mnItems.elems = <<>>
        /\ ~mnBase.isNull =>
              /\ IsOrderedPick(mnItems.elems, mnBase.elems)
              /\ \A i \in 1..Len(mnItems.elems) : ~mnItems.elems[i].disabled
              /\ Len(mnItems.elems) = EnabledCount(mnBase.elems)

\* The base class returned item 2, a disabled item 1 and item 1 enabled;
\* the menu keeps the first and the last, in that order.
C34_Witness ==
    /\ mnCalled
    /\ mnBase = List(<< MenuItem(2, FALSE), MenuItem(1, TRUE),
                        MenuItem(1, FALSE) >>)
    /\ mnItems = List(<< MenuItem(2, FALSE), MenuItem(1, FALSE) >>)

-----------------------------------------------------------------------------
(* Claims about ItemsTextMixin *)

-----------------------------------------------------------------------------
(* Claims about the roles and ids TabStripWrapper gives its items *)

HasRole(el) == el.role # NoAttribute /\ el.role # ""

\* C32: after itemsChanged every item of the wrapper has a role and a
\* non-empty id, and an item that had a role or an id before the call still
\* has that one; the ids generated by all wrappers so far are pairwise
\* distinct, one for each step of the shared counter, which never
\* decreases.
C32_RolesAndDistinctIds ==
    /\ (lastIds.op = "itemsChanged" /\ ~lastIds.items.isNull) =>
          \A k \in 1..Len(lastIds.items.elems) :
              LET i == lastIds.items.elems[k]
                  was == lastIds.before.elements[i]
              IN  /\ HasRole(idElements[i])
                  /\ idElements[i].id # ""
                  /\ HasRole(was) => idElements[i].role = was.role
                  /\ was.id # "" => idElements[i].id = was.id
    /\ \A m, n \in 1..Len(idGenerated) :
          m # n => idGenerated[m] # idGenerated[n]
    /\ Len(idGenerated) = idCount
    /\ idCount >= lastIds.before.idCount

\* The second wrapper's itemsChanged gives its item, which keeps the
\* author's role, the id "_aPanel1" after the first wrapper gave "_panel0"
\* to its second item and left the first item's id "x" alone.
C32_Witness ==
    /\ lastIds.op = "itemsChanged"
    /\ lastIds.wrapper = 2
    /\ idGenerated = << "_panel0", "_aPanel1" >>
    /\ idElements[1].id = "x"
    /\ idElements[2] = [role |-> "tabpanel", id |-> "_panel0"]
    /\ idElements[3] = [role |-> "tab", id |-> "_aPanel1"]
    /\ lastIds.before.elements[3] = [role |-> "tab", id |-> ""]

====
